---- MODULE Spec2Model ----
(***************************************************************************)
(* The "Switch" / "Old Skool Blackjack" card-game servers of the           *)
(* repository, as state machines.  The repository holds several servers    *)
(* that implement the same rules differently; `variant` says which one a   *)
(* behaviour is a run of:                                                  *)
(*   "A"  src/server.js      lines   1-515   (startNewGame / applyAction)  *)
(*                                                                         *)
(* Cards are records [rank, suit].  Suits are written "S","H","D","C" for  *)
(* the code's "♠","♥","♦","♣".  Array indices are 0-based as in the code;  *)
(* At(s, i) reads element i of a JavaScript array.                        *)
(*                                                                         *)
(* A shuffled deck is kept as a bag (card -> count): shuffle() makes every *)
(* order possible and the order is only ever observed by deck.pop(), so a  *)
(* pop may take any card the deck holds.                                   *)
(***************************************************************************)
EXTENDS Integers, Sequences, FiniteSets, TLC

VARIABLES
  variant,       \* which server of the repository runs
  players,       \* state.players: sequence of [hand, lastDeclared]
  deck,          \* state.deck, as a bag
  discard,       \* state.discard, top card last
  turnIndex,     \* state.turnIndex (0-based seat)
  direction,     \* state.direction, 1 or -1
  activeSuit,    \* state.activeSuit
  pendingDraw2,  \* state.pendingDraw2
  pendingDrawJ,  \* state.pendingDrawJ
  pendingSkip,   \* state.pendingSkip
  extraTurn,     \* state.extraTurn
  awaitingSuit,  \* state.awaitingSuit (servers that wait for a suit choice)
  status,        \* state.status: "playing" or "ended"
  winner,        \* state.winnerSeat, Null when not set
  clients,       \* seats whose connection is still open
  res,           \* what the last handler call returned
  moves,         \* intents accepted and connections closed so far
  timers,        \* setTimeout callbacks (botTurn) scheduled and not yet run
  rooms,         \* the relay servers' registry: room code -> room
  sockets        \* the relay servers' connections: ws -> [st, room, id]

table == <<players, deck, discard, turnIndex, direction, activeSuit,
           pendingDraw2, pendingDrawJ, pendingSkip, extraTurn, awaitingSuit,
           status, winner>>
vars == <<variant, players, deck, discard, turnIndex, direction, activeSuit,
          pendingDraw2, pendingDrawJ, pendingSkip, extraTurn, awaitingSuit,
          status, winner, clients, res, moves, timers, rooms, sockets>>

\* what the game servers never touch: the relay servers' rooms and sockets
relay == <<rooms, sockets>>

(***************************************************************************)
(* Bounds of the model.  The code plays 52 cards and deals 7 to a seat;    *)
(* the model plays the reduced deck DeckCards and deals HandSize.          *)
(***************************************************************************)
HandSize == 2   \* cards dealt to each seat
MaxPlay == 2    \* longest index list of a PLAY intent
MaxMoves == 3   \* intents accepted and connections closed in one match
MaxConns == 2   \* connections a relay server sees
MaxEvents == 5  \* messages and closes a relay server handles

\* room codes clients ask for, and the connections
Codes == {"ROOM", "TABLE"}
Conns == 1..MaxConns

Null == -1

\* the largest number of players a room takes ("Room full (max 4)")
MaxPlayers == 4

\* rooms = new Map() with no room in it, and no connection yet
NoRooms == [code \in Codes |-> [live |-> FALSE, hostId |-> Null, clients |-> <<>>]]
NoSockets == [w \in Conns |-> [st |-> "none", room |-> "", id |-> Null]]

Card(r, s) == [rank |-> r, suit |-> s]

\* the reduced deck, and the orders in which the shuffled deck is dealt
\* (first card popped first)
DeckCards ==
  { Card("5", "H"), Card("6", "H"), Card("7", "H"), Card("Q", "H"),
    Card("K", "H"), Card("2", "S"), Card("A", "S") }

Deals ==
  { << Card("6", "H"), Card("Q", "H"), Card("5", "H"), Card("K", "H"), Card("7", "H"),
       Card("2", "S"), Card("A", "S") >>,
    << Card("A", "S"), Card("Q", "H"), Card("2", "S"), Card("K", "H"), Card("7", "H"),
       Card("5", "H"), Card("6", "H") >>,
    << Card("K", "H"), Card("2", "S"), Card("5", "H"), Card("A", "S"), Card("6", "H"),
       Card("7", "H"), Card("Q", "H") >>,
    << Card("5", "H"), Card("6", "H"), Card("Q", "H"), Card("A", "S"), Card("K", "H"),
       Card("7", "H"), Card("2", "S") >> }

\* cards of the full deck that only the long-run position below holds: the
\* spades from 3 to Jack and the 2 of hearts
RunCards ==
  { Card("2", "H"), Card("3", "S"), Card("4", "S"), Card("5", "S"), Card("6", "S"),
    Card("7", "S"), Card("8", "S"), Card("9", "S"), Card("10", "S"), Card("J", "S") }

\* the Jack and the 8 of hearts, held in the Jack-stack position below
JackCards == { Card("J", "H"), Card("8", "H") }

\* the King of spades, held next to the King of hearts in the King-pair
\* position below
KingCards == { Card("K", "S") }

Cards == DeckCards \cup RunCards \cup JackCards \cup KingCards

POWER_RANKS == {"A", "2", "8", "J", "Q", "K"}

rankVal(r) ==
  CASE r = "A" -> 1
    [] r = "J" -> 11
    [] r = "Q" -> 12
    [] r = "K" -> 13
    [] r = "10" -> 10
    [] OTHER -> CHOOSE v \in 2..9 : ToString(v) = r

Abs(x) == IF x < 0 THEN -x ELSE x

canStart(c, top, suit) ==
  c.rank = "A" \/ c.suit = suit \/ c.rank = top.rank

linkOk(p, n) ==
  \/ p.rank = n.rank
  \/ (p.suit = n.suit /\ Abs(rankVal(p.rank) - rankVal(n.rank)) = 1)

(***************************************************************************)
(* JavaScript arrays and bags.                                             *)
(***************************************************************************)
At(s, i) == s[i + 1]
Last(s) == s[Len(s)]
Front(s) == SubSeq(s, 1, Len(s) - 1)

RECURSIVE SumOver(_, _)
SumOver(b, S) ==
  IF S = {} THEN 0
  ELSE LET c == CHOOSE x \in S : TRUE IN b[c] + SumOver(b, S \ {c})

BagSize(b) == SumOver(b, Cards)
BagOfSeq(s) == [c \in Cards |-> Cardinality({i \in DOMAIN s : s[i] = c})]
Support(b) == {c \in Cards : b[c] > 0}
Take(b, c) == [b EXCEPT ![c] = @ - 1]

createDeck == [c \in Cards |-> IF c \in DeckCards THEN 1 ELSE 0]

RECURSIVE SetToSeqDesc(_)
SetToSeqDesc(S) ==
  IF S = {} THEN <<>>
  ELSE LET m == CHOOSE x \in S : \A y \in S : y <= x
       IN <<m>> \o SetToSeqDesc(S \ {m})

\* the array left after splicing out the (0-based) positions in S
RECURSIVE SpliceOut(_, _, _)
SpliceOut(s, S, i) ==
  IF i > Len(s) THEN <<>>
  ELSE (IF (i - 1) \in S THEN <<>> ELSE <<s[i]>>) \o SpliceOut(s, S, i + 1)

SeqsUpTo(S, k) == UNION {[1..m -> S] : m \in 0..k}

(***************************************************************************)
(* src/server.js, first server.                                            *)
(***************************************************************************)
topCard(d) == d[Len(d)]

\* one round of draw's loop: refill an empty deck (from the discard pile under
\* its top card, or with a fresh deck), then pop a card
drawStep(r) ==
  LET fed == IF BagSize(r.deck) = 0
             THEN IF Len(r.discard) > 1
                  THEN [deck |-> BagOfSeq(Front(r.discard)), discard |-> <<Last(r.discard)>>]
                  ELSE [deck |-> createDeck, discard |-> r.discard]
             ELSE [deck |-> r.deck, discard |-> r.discard]
  IN IF BagSize(fed.deck) > 0
     THEN {[deck |-> Take(fed.deck, c), discard |-> fed.discard, out |-> Append(r.out, c)] :
             c \in Support(fed.deck)}
     ELSE {[deck |-> fed.deck, discard |-> fed.discard, out |-> r.out]}

\* draw(state, n, events): every result the shuffles allow, as
\* [deck, discard, out]
RECURSIVE draw(_, _, _)
draw(dk, dc, n) ==
  IF n = 0 THEN {[deck |-> dk, discard |-> dc, out |-> <<>>]}
  ELSE UNION {drawStep(r) : r \in draw(dk, dc, n - 1)}

SuitOrder == <<"S", "H", "D", "C">>

RECURSIVE bestSuit(_, _, _)
bestSuit(hand, best, k) ==
  LET count(s) == Cardinality({i \in DOMAIN hand : hand[i].suit = s})
  IN IF k > Len(SuitOrder) THEN best
     ELSE bestSuit(hand, IF count(SuitOrder[k]) > count(best) THEN SuitOrder[k] ELSE best, k + 1)

chooseSuitForBotLike(hand) == bestSuit(hand, "S", 1)

\* the fields of the state a power card can change
Effects == [activeSuit |-> activeSuit, direction |-> direction,
            pendingDraw2 |-> pendingDraw2, pendingDrawJ |-> pendingDrawJ,
            pendingSkip |-> pendingSkip, extraTurn |-> extraTurn]

\* a faulty applyPower in which a King grants nothing (sensitivity of C34)
applyPower_kingless(st, card, hand, isLast) ==
  LET r == card.rank IN
  IF r = "A" /\ isLast THEN [st EXCEPT !.activeSuit = chooseSuitForBotLike(hand)]
  ELSE IF r = "2" THEN [st EXCEPT !.pendingDraw2 = @ + 2]
  ELSE IF r = "8" THEN [st EXCEPT !.pendingSkip = @ + 1]
  ELSE IF r = "Q" THEN [st EXCEPT !.direction = @ * (-1)]
  ELSE IF r = "J" THEN
         IF card.suit \in {"H", "D"} THEN [st EXCEPT !.pendingDrawJ = 0]
         ELSE [st EXCEPT !.pendingDrawJ = @ + 5]
  ELSE st

applyPower(st, card, hand, isLast) ==
  LET r == card.rank IN
  IF r = "A" /\ isLast THEN [st EXCEPT !.activeSuit = chooseSuitForBotLike(hand)]
  ELSE IF r = "2" THEN [st EXCEPT !.pendingDraw2 = @ + 2]
  ELSE IF r = "8" THEN [st EXCEPT !.pendingSkip = @ + 1]
  ELSE IF r = "Q" THEN [st EXCEPT !.direction = @ * (-1)]
  ELSE IF r = "K" THEN [st EXCEPT !.extraTurn = TRUE]
  ELSE IF r = "J" THEN
         IF card.suit \in {"H", "D"} THEN [st EXCEPT !.pendingDrawJ = 0]
         ELSE [st EXCEPT !.pendingDrawJ = @ + 5]
  ELSE st

isSetOf(cards) == Len(cards) > 1 /\ \A i \in DOMAIN cards : cards[i].rank = cards[1].rank

\* the state after the power loop has handled cards[1..i]
RECURSIVE powerLoop(_, _, _, _)
powerLoop(st, cards, hand, i) ==
  IF i = 0 THEN st
  ELSE LET before == powerLoop(st, cards, hand, i - 1)
       IN IF cards[i].rank \in POWER_RANKS /\ (isSetOf(cards) \/ i = Len(cards))
          THEN applyPower(before, cards[i], hand, i = Len(cards))
          ELSE before

advanceTurn(t, dir, n) == (t + dir + n) % n

\* a faulty turn guard that lets every seat act (sensitivity of C8)
isPlayersTurn_anySeat(seat) == TRUE

isPlayersTurn(seat) == turnIndex = seat

Reply(ok, err, ev) == [ok |-> ok, err |-> err, ev |-> ev]

Reject(err) == res' = Reply(FALSE, err, "") /\ UNCHANGED <<table, moves>>

Accept(ev) == moves < MaxMoves /\ moves' = moves + 1 /\ res' = Reply(TRUE, "", ev)

SetEffects(st) ==
  /\ direction' = st.direction
  /\ pendingDraw2' = st.pendingDraw2
  /\ pendingDrawJ' = st.pendingDrawJ
  /\ pendingSkip' = st.pendingSkip

\* startNewGame: every deal a shuffle allows
startNewGame(n) ==
  \E d \in Deals :
    /\ n * HandSize + 1 <= Len(d)
    /\ players = [i \in 1..n |->
                    [hand |-> [r \in 1..HandSize |-> d[(r - 1) * n + i]],
                     lastDeclared |-> FALSE]]
    /\ discard = <<d[n * HandSize + 1]>>
    /\ deck = [c \in Cards |->
                 IF \E k \in (n * HandSize + 2)..Len(d) : d[k] = c THEN 1 ELSE 0]
    /\ activeSuit = d[n * HandSize + 1].suit
    /\ turnIndex = 0
    /\ direction = 1
    /\ pendingDraw2 = 0 /\ pendingDrawJ = 0 /\ pendingSkip = 0
    /\ extraTurn = FALSE
    /\ awaitingSuit = FALSE
    /\ status = "playing"
    /\ winner = Null
    /\ clients = 0..(n - 1)
    /\ res = Reply(TRUE, "", "start")
    /\ timers = 0 /\ rooms = NoRooms /\ sockets = NoSockets
    /\ moves = 0

InitA == variant = "A" /\ startNewGame(2)

A_DeclareLast(seat) ==
  /\ variant = "A" /\ seat \in clients
  /\ IF status # "playing" THEN Reject("Game not active")
     ELSE IF ~isPlayersTurn(seat) THEN Reject("Not your turn")
     ELSE /\ players' = [players EXCEPT ![seat + 1].lastDeclared = TRUE]
          /\ Accept("last")
          /\ UNCHANGED <<deck, discard, turnIndex, direction, activeSuit, pendingDraw2,
                         pendingDrawJ, pendingSkip, extraTurn, status, winner>>
  /\ UNCHANGED <<variant, clients, awaitingSuit>>

A_Draw(seat) ==
  /\ variant = "A" /\ seat \in clients
  /\ IF status # "playing" THEN Reject("Game not active")
     ELSE IF ~isPlayersTurn(seat) THEN Reject("Not your turn")
     ELSE IF pendingDraw2 = 0 /\ pendingDrawJ = 0 /\ pendingSkip > 0
     THEN /\ pendingSkip' = 0
          /\ turnIndex' = advanceTurn(turnIndex, direction, Len(players))
          /\ Accept("skipped")
          /\ UNCHANGED <<players, deck, discard, direction, activeSuit, pendingDraw2,
                         pendingDrawJ, extraTurn, status, winner>>
     ELSE LET toDraw == IF pendingDraw2 > 0 THEN pendingDraw2
                        ELSE IF pendingDrawJ > 0 THEN pendingDrawJ ELSE 1
          IN /\ \E r \in draw(deck, discard, toDraw) :
                  /\ players' = [players EXCEPT ![seat + 1].hand = @ \o r.out]
                  /\ deck' = r.deck
                  /\ discard' = r.discard
             /\ pendingDraw2' = 0
             /\ pendingDrawJ' = IF pendingDraw2 > 0 THEN pendingDrawJ ELSE 0
             /\ turnIndex' = advanceTurn(turnIndex, direction, Len(players))
             /\ Accept("draw")
             /\ UNCHANGED <<direction, activeSuit, pendingSkip, extraTurn, status, winner>>
  /\ UNCHANGED <<variant, clients, awaitingSuit>>

\* a faulty WIN block that records no winner (sensitivity of C7)
A_Win_noWinner(seat) == status' = "ended" /\ winner' = Null /\ UNCHANGED turnIndex

\* applyAction's "WIN" block
A_Win(seat) == status' = "ended" /\ winner' = seat /\ UNCHANGED turnIndex

\* the part of applyAction's PLAY branch after validation
A_PlayCards(seat, uniq, cards) ==
  LET p == players[seat + 1]
      hand1 == SpliceOut(p.hand, {uniq[k] : k \in DOMAIN uniq}, 1)
      finishedNow == Len(hand1) = 0
      st == powerLoop(Effects, cards, hand1, Len(cards))
      lastCard == cards[Len(cards)]
      suit1 == IF lastCard.rank # "A" THEN lastCard.suit ELSE st.activeSuit
      discard1 == discard \o cards
      n == Len(players)
  IN IF finishedNow /\ ~p.lastDeclared
     THEN \E r \in draw(deck, discard1, 2) :
            /\ players' = [players EXCEPT ![seat + 1] =
                             [hand |-> hand1 \o r.out, lastDeclared |-> FALSE]]
            /\ deck' = r.deck /\ discard' = r.discard
            /\ SetEffects(st) /\ extraTurn' = st.extraTurn /\ activeSuit' = suit1
            /\ turnIndex' = advanceTurn(turnIndex, st.direction, n)
            /\ Accept("Forgot LAST! Draw 2")
            /\ UNCHANGED <<status, winner>>
     ELSE IF finishedNow /\ lastCard.rank \in POWER_RANKS
     THEN \E r \in draw(deck, discard1, 1) :
            /\ players' = [players EXCEPT ![seat + 1] =
                             [hand |-> hand1 \o r.out, lastDeclared |-> FALSE]]
            /\ deck' = r.deck /\ discard' = r.discard
            /\ SetEffects(st) /\ extraTurn' = st.extraTurn /\ activeSuit' = suit1
            /\ turnIndex' = advanceTurn(turnIndex, st.direction, n)
            /\ Accept("Can't end on Power! Pick up 1")
            /\ UNCHANGED <<status, winner>>
     ELSE IF Len(hand1) = 0
     THEN /\ players' = [players EXCEPT ![seat + 1].hand = hand1]
          /\ discard' = discard1
          /\ SetEffects(st) /\ extraTurn' = st.extraTurn /\ activeSuit' = suit1
          /\ A_Win(seat)
          /\ Accept("wins!")
          /\ UNCHANGED deck
     ELSE IF st.extraTurn
     THEN /\ players' = [players EXCEPT ![seat + 1].hand = hand1]
          /\ discard' = discard1
          /\ SetEffects(st) /\ extraTurn' = FALSE /\ activeSuit' = suit1
          /\ Accept("KING: Play Again!")
          /\ UNCHANGED <<deck, turnIndex, status, winner>>
     ELSE /\ players' = [players EXCEPT ![seat + 1].hand = hand1]
          /\ discard' = discard1
          /\ SetEffects(st) /\ extraTurn' = st.extraTurn /\ activeSuit' = suit1
          /\ turnIndex' = advanceTurn(turnIndex, st.direction, n)
          /\ Accept("played")
          /\ UNCHANGED <<deck, status, winner>>

A_Play(seat, indices) ==
  /\ variant = "A" /\ seat \in clients
  /\ IF status # "playing" THEN Reject("Game not active")
     ELSE IF ~isPlayersTurn(seat) THEN Reject("Not your turn")
     ELSE IF Len(indices) = 0 THEN Reject("No cards selected")
     ELSE LET uniq == SetToSeqDesc({indices[k] : k \in DOMAIN indices})
              hand == players[seat + 1].hand
          IN IF uniq[1] >= Len(hand) \/ uniq[Len(uniq)] < 0
             THEN Reject("Invalid selection")
             ELSE LET cards == [k \in DOMAIN uniq |-> At(hand, uniq[k])]
                  IN IF pendingDraw2 > 0 /\ cards[1].rank # "2" THEN Reject("Must play a 2!")
                     ELSE IF pendingDrawJ > 0 /\ cards[1].rank # "J"
                     THEN Reject("Must play a Jack (or DRAW)!")
                     ELSE IF pendingSkip > 0 /\ cards[1].rank # "8"
                     THEN Reject("Can only stack an 8!")
                     ELSE IF ~canStart(cards[1], topCard(discard), activeSuit)
                     THEN Reject("Invalid Card")
                     ELSE IF \E i \in 1..(Len(cards) - 1) : ~linkOk(cards[i], cards[i + 1])
                     THEN Reject("Invalid Combo")
                     ELSE A_PlayCards(seat, uniq, cards)
  /\ UNCHANGED <<variant, clients, awaitingSuit>>

\* ws "close": the seat is vacated; the room goes with its last client, and a
\* game that was being played is ended
A_Close(seat) ==
  /\ variant = "A" /\ seat \in clients
  /\ clients' = clients \ {seat}
  /\ IF clients' # {} /\ status = "playing"
     THEN status' = "ended" /\ Accept("Opponent left. Game ended.")
     ELSE Accept("closed") /\ UNCHANGED status
  /\ UNCHANGED <<variant, players, deck, discard, turnIndex, direction, activeSuit,
                 pendingDraw2, pendingDrawJ, pendingSkip, extraTurn, awaitingSuit,
                 winner>>

Seats == 0..(Len(players) - 1)

IndexLists == SeqsUpTo(-1..HandSize, MaxPlay)

NextA ==
  \/ \E seat \in Seats : A_DeclareLast(seat) /\ UNCHANGED <<timers, relay>>
  \/ \E seat \in Seats : A_Draw(seat) /\ UNCHANGED <<timers, relay>>
  \/ \E seat \in Seats, indices \in IndexLists : A_Play(seat, indices) /\ UNCHANGED <<timers, relay>>
  \/ \E seat \in Seats : A_Close(seat) /\ UNCHANGED <<timers, relay>>

SpecA == InitA /\ [][NextA]_vars

\* A position of a running match in which seat 1 holds a suited run from the
\* 2 up to the Jack of spades, the 2 drawn last (applyAction plays a selection
\* from the highest hand position down).  Seven of the run come from the deal
\* and three from draws.
MidGameRun ==
  /\ variant = "A"
  /\ players = << [hand |-> <<Card("2", "H"), Card("5", "H")>>, lastDeclared |-> FALSE],
                  [hand |-> << Card("J", "S"), Card("10", "S"), Card("9", "S"),
                               Card("8", "S"), Card("7", "S"), Card("6", "S"),
                               Card("5", "S"), Card("4", "S"), Card("3", "S"),
                               Card("2", "S"), Card("6", "H") >>,
                   lastDeclared |-> FALSE] >>
  /\ discard = <<Card("7", "H")>>
  /\ deck = [c \in Cards |-> IF c \in {Card("Q", "H"), Card("K", "H"), Card("A", "S")}
                              THEN 1 ELSE 0]
  /\ activeSuit = "H"
  /\ turnIndex = 0
  /\ direction = 1
  /\ pendingDraw2 = 0 /\ pendingDrawJ = 0 /\ pendingSkip = 0
  /\ extraTurn = FALSE
  /\ awaitingSuit = FALSE
  /\ status = "playing"
  /\ winner = Null
  /\ clients = 0..1
  /\ res = Reply(TRUE, "", "draw")
  /\ timers = 0 /\ rooms = NoRooms /\ sockets = NoSockets
  /\ moves = 0

\* selections longer than MaxPlay: the first m hand positions, at least one
\* card staying in the hand
LongLists(seat) ==
  {[k \in 1..m |-> k - 1] : m \in (MaxPlay + 1)..(Len(players[seat + 1].hand) - 1)}

A_PlayRun == \E seat \in Seats : \E sel \in LongLists(seat) : A_Play(seat, sel) /\ UNCHANGED <<timers, relay>>

SpecRun == (InitA \/ MidGameRun) /\ [][NextA \/ A_PlayRun]_vars

\* A position of a running match in which seat 0 holds the 8 and the Jack of
\* hearts and seat 1 the spades from 8 to Jack, the 8 drawn last.
JackStack ==
  /\ variant = "A"
  /\ players = << [hand |-> <<Card("8", "H"), Card("J", "H"), Card("5", "H")>>,
                   lastDeclared |-> FALSE],
                  [hand |-> << Card("J", "S"), Card("10", "S"), Card("9", "S"),
                               Card("8", "S"), Card("6", "H") >>,
                   lastDeclared |-> FALSE] >>
  /\ discard = <<Card("7", "H")>>
  /\ deck = [c \in Cards |->
               IF c \in {Card("Q", "H"), Card("K", "H"), Card("A", "S"), Card("2", "S")}
               THEN 1 ELSE 0]
  /\ activeSuit = "H"
  /\ turnIndex = 0
  /\ direction = 1
  /\ pendingDraw2 = 0 /\ pendingDrawJ = 0 /\ pendingSkip = 0
  /\ extraTurn = FALSE
  /\ awaitingSuit = FALSE
  /\ status = "playing"
  /\ winner = Null
  /\ clients = 0..1
  /\ res = Reply(TRUE, "", "draw")
  /\ timers = 0 /\ rooms = NoRooms /\ sockets = NoSockets
  /\ moves = 0

SpecJack == (InitA \/ JackStack) /\ [][NextA \/ A_PlayRun]_vars

\* A position of a running match in which each seat holds an 8.
EightStack ==
  /\ variant = "A"
  /\ players = << [hand |-> <<Card("8", "H"), Card("5", "H")>>, lastDeclared |-> FALSE],
                  [hand |-> <<Card("8", "S"), Card("6", "H")>>, lastDeclared |-> FALSE] >>
  /\ discard = <<Card("7", "H")>>
  /\ deck = [c \in Cards |->
               IF c \in {Card("Q", "H"), Card("K", "H"), Card("A", "S"), Card("2", "S")}
               THEN 1 ELSE 0]
  /\ activeSuit = "H"
  /\ turnIndex = 0
  /\ direction = 1
  /\ pendingDraw2 = 0 /\ pendingDrawJ = 0 /\ pendingSkip = 0
  /\ extraTurn = FALSE
  /\ awaitingSuit = FALSE
  /\ status = "playing"
  /\ winner = Null
  /\ clients = 0..1
  /\ res = Reply(TRUE, "", "start")
  /\ timers = 0 /\ rooms = NoRooms /\ sockets = NoSockets
  /\ moves = 0

\* A position of a running match two moves after the deal K-hearts, 5-hearts
\* to seat 0 and 2-spades, A-spades to seat 1 with starter 6-hearts: seat 0
\* has played the 5 and seat 1 has drawn the Queen of hearts.
KingLeft ==
  /\ variant = "A"
  /\ players = << [hand |-> <<Card("K", "H")>>, lastDeclared |-> FALSE],
                  [hand |-> <<Card("2", "S"), Card("A", "S"), Card("Q", "H")>>,
                   lastDeclared |-> FALSE] >>
  /\ discard = <<Card("6", "H"), Card("5", "H")>>
  /\ deck = [c \in Cards |-> IF c = Card("7", "H") THEN 1 ELSE 0]
  /\ activeSuit = "H"
  /\ turnIndex = 0
  /\ direction = 1
  /\ pendingDraw2 = 0 /\ pendingDrawJ = 0 /\ pendingSkip = 0
  /\ extraTurn = FALSE
  /\ awaitingSuit = FALSE
  /\ status = "playing"
  /\ winner = Null
  /\ clients = 0..1
  /\ res = Reply(TRUE, "", "draw")
  /\ timers = 0 /\ rooms = NoRooms /\ sockets = NoSockets
  /\ moves = 0

\* A position of a running match in which seat 0, at turn, holds both Kings
\* of the model next to the 5 of hearts, on the starter 7-hearts.
KingPair ==
  /\ variant = "A"
  /\ players = << [hand |-> <<Card("5", "H"), Card("K", "S"), Card("K", "H")>>,
                   lastDeclared |-> FALSE],
                  [hand |-> <<Card("2", "S"), Card("A", "S")>>, lastDeclared |-> FALSE] >>
  /\ discard = <<Card("7", "H")>>
  /\ deck = [c \in Cards |-> IF c \in {Card("6", "H"), Card("Q", "H")} THEN 1 ELSE 0]
  /\ activeSuit = "H"
  /\ turnIndex = 0
  /\ direction = 1
  /\ pendingDraw2 = 0 /\ pendingDrawJ = 0 /\ pendingSkip = 0
  /\ extraTurn = FALSE
  /\ awaitingSuit = FALSE
  /\ status = "playing"
  /\ winner = Null
  /\ clients = 0..1
  /\ res = Reply(TRUE, "", "draw")
  /\ timers = 0 /\ rooms = NoRooms /\ sockets = NoSockets
  /\ moves = 0

(***************************************************************************)
(* src/server.js, second server (initGame / handlePlay).  gameState.players *)
(* is a copy of room.players made by initGame; `clients` is room.players,  *)
(* as indices into gameState.players.                                      *)
(***************************************************************************)
MaxSeats == 2   \* players in the lobby when a game is first started

SuitChars == {"H", "D", "C", "S", "?"}

SUIT_MAP(ch) == IF ch \in {"H", "D", "C", "S"} THEN ch ELSE "S"

\* cardIndices.sort((a, b) => b - a): duplicates stay
RECURSIVE SortDesc(_)
SortDesc(q) ==
  IF Len(q) = 0 THEN <<>>
  ELSE LET k == CHOOSE i \in DOMAIN q : \A j \in DOMAIN q : q[j] <= q[i]
       IN <<q[k]>> \o SortDesc([j \in 1..(Len(q) - 1) |-> IF j < k THEN q[j] ELSE q[j + 1]])

Reverse(q) == [k \in DOMAIN q |-> q[Len(q) + 1 - k]]

\* hand.splice(idx, 1)
Splice1(hand, idx) ==
  IF idx < 0 \/ idx >= Len(hand) THEN hand
  ELSE [j \in 1..(Len(hand) - 1) |-> IF j <= idx THEN hand[j] ELSE hand[j + 1]]

\* cardIndices.forEach(idx => hand.splice(idx, 1)), for the first k indices
RECURSIVE SpliceAll(_, _, _)
SpliceAll(hand, idxs, k) ==
  IF k = 0 THEN hand ELSE Splice1(SpliceAll(hand, idxs, k - 1), idxs[k])

\* the first card of the dealing order, from position k on, that is no power
\* card (0 when there is none): the starter loop puts power cards back
RECURSIVE starterAt(_, _)
starterAt(d, k) ==
  IF k > Len(d) THEN 0
  ELSE IF d[k].rank \notin POWER_RANKS THEN k ELSE starterAt(d, k + 1)

\* the hands, starter and deck that initGame / createGame make of a dealing
\* order: HandSize cards round robin, then the starter
dealt(n, d) ==
  LET st == starterAt(d, n * HandSize + 1) IN
  [players |-> [i \in 1..n |->
                  [hand |-> [r \in 1..HandSize |-> d[(r - 1) * n + i]],
                   lastDeclared |-> FALSE]],
   discard |-> <<d[st]>>,
   deck |-> [c \in Cards |->
               IF \E k \in DOMAIN d : d[k] = c /\ k > n * HandSize /\ k # st THEN 1 ELSE 0],
   activeSuit |-> d[st].suit]

\* initGame / createGame for one dealing order
dealOf(n, d) ==
    /\ n * HandSize + 1 <= Len(d)
    /\ starterAt(d, n * HandSize + 1) # 0
    /\ players = dealt(n, d).players
    /\ discard = dealt(n, d).discard
    /\ deck = dealt(n, d).deck
    /\ activeSuit = dealt(n, d).activeSuit
    /\ turnIndex = 0
    /\ direction = 1
    /\ pendingDraw2 = 0 /\ pendingDrawJ = 0 /\ pendingSkip = 0
    /\ extraTurn = FALSE
    /\ awaitingSuit = FALSE
    /\ status = "playing"
    /\ winner = Null
    /\ clients = 0..(n - 1)
    /\ res = Reply(TRUE, "", "start")
    /\ timers = 0 /\ rooms = NoRooms /\ sockets = NoSockets

\* initGame / createGame: every deal a shuffle allows
dealGame(n) == \E d \in Deals : dealOf(n, d)

InitB == variant = "B" /\ moves = 0 /\ \E n \in 2..MaxSeats : dealGame(n)

\* a handler that returns without an answer
Ignore == res' = Reply(FALSE, "", "") /\ UNCHANGED <<table, moves>>

\* an exception nothing catches ends the server process: every room is lost
Crash ==
  /\ players' = <<>> /\ deck' = [c \in Cards |-> 0] /\ discard' = <<>>
  /\ status' = "crashed"
  /\ clients' = {}
  /\ res' = Reply(FALSE, "TypeError", "")
  /\ UNCHANGED <<turnIndex, direction, activeSuit, pendingDraw2, pendingDrawJ,
                 pendingSkip, extraTurn, awaitingSuit, winner, moves>>
  /\ timers' = 0

\* finishTurn
B_finishTurn(ps, dir) ==
  /\ players' = [ps EXCEPT ![turnIndex + 1].lastDeclared = FALSE]
  /\ turnIndex' = (turnIndex + dir + Len(ps)) % Len(ps)

\* the power loop of handlePlay, after cards[1..i]
RECURSIVE B_powerLoop(_, _, _)
B_powerLoop(st, cards, i) ==
  IF i = 0 THEN st
  ELSE LET before == B_powerLoop(st, cards, i - 1)
           r == cards[i].rank
       IN IF r \in POWER_RANKS /\ (isSetOf(cards) \/ i = Len(cards))
          THEN IF r = "A" /\ i = Len(cards) THEN [before EXCEPT !.awaitingSuit = TRUE]
               ELSE IF r = "2" THEN [before EXCEPT !.pendingDraw2 = @ + 2]
               ELSE IF r = "8" THEN [before EXCEPT !.pendingSkip = @ + 1]
               ELSE IF r = "Q" THEN [before EXCEPT !.direction = @ * (-1)]
               ELSE IF r = "K" THEN [before EXCEPT !.extraTurn = TRUE]
               ELSE IF r = "J" THEN
                      IF cards[i].suit \in {"H", "D"} THEN [before EXCEPT !.pendingDrawJ = 0]
                      ELSE [before EXCEPT !.pendingDrawJ = @ + 5]
               ELSE before
          ELSE before

B_Effects == [direction |-> direction, pendingDraw2 |-> pendingDraw2,
              pendingDrawJ |-> pendingDrawJ, pendingSkip |-> pendingSkip,
              extraTurn |-> extraTurn, awaitingSuit |-> awaitingSuit]

\* handlePlay from "Execute Play" on
B_PlayCards(c, srt, cards) ==
  LET hand1 == SpliceAll(players[c + 1].hand, srt, Len(srt))
      st == B_powerLoop(B_Effects, cards, Len(cards))
      lastCard == cards[Len(cards)]
      suit1 == IF lastCard.rank # "A" THEN lastCard.suit ELSE activeSuit
      discard1 == discard \o cards
      ps1 == [players EXCEPT ![c + 1].hand = hand1]
  IN /\ SetEffects(st) /\ activeSuit' = suit1
     /\ IF Len(hand1) = 0 /\ lastCard.rank \in POWER_RANKS
        THEN \E r \in draw(deck, discard1, 2) :
               /\ B_finishTurn([ps1 EXCEPT ![c + 1].hand = r.out], st.direction)
               /\ deck' = r.deck /\ discard' = r.discard
               /\ extraTurn' = FALSE /\ awaitingSuit' = FALSE
               /\ Accept("Can't finish on power card! Drew 2.")
               /\ UNCHANGED <<status, winner>>
        ELSE IF Len(hand1) = 0
        THEN /\ players' = ps1 /\ discard' = discard1
             /\ extraTurn' = st.extraTurn /\ awaitingSuit' = st.awaitingSuit
             /\ winner' = c /\ status' = "ended"
             /\ Accept("wins!")
             /\ UNCHANGED <<deck, turnIndex>>
        ELSE IF st.awaitingSuit
        THEN /\ players' = ps1 /\ discard' = discard1
             /\ extraTurn' = st.extraTurn /\ awaitingSuit' = TRUE
             /\ Accept("PICK_SUIT")
             /\ UNCHANGED <<deck, turnIndex, status, winner>>
        ELSE IF st.extraTurn
        THEN /\ players' = ps1 /\ discard' = discard1
             /\ extraTurn' = FALSE /\ awaitingSuit' = st.awaitingSuit
             /\ Accept("KING: Play Again!")
             /\ UNCHANGED <<deck, turnIndex, status, winner>>
        ELSE /\ B_finishTurn(ps1, st.direction) /\ discard' = discard1
             /\ extraTurn' = st.extraTurn /\ awaitingSuit' = st.awaitingSuit
             /\ Accept("played")
             /\ UNCHANGED <<deck, status, winner>>

\* ACTION_PLAY -> handlePlay
B_Play(c, indices) ==
  /\ variant = "B" /\ c \in clients
  /\ IF turnIndex # c THEN Reject("Not your turn") /\ UNCHANGED clients
     ELSE LET srt == SortDesc(indices)
              hand == players[c + 1].hand
          IN IF \E k \in DOMAIN srt : srt[k] < 0 \/ srt[k] >= Len(hand)
             THEN Reject("Invalid cards") /\ UNCHANGED clients
             ELSE IF Len(srt) = 0 THEN Crash
             ELSE LET cards == Reverse([k \in DOMAIN srt |-> At(hand, srt[k])])
                  IN /\ UNCHANGED clients
                     /\ IF pendingDraw2 > 0 /\ cards[1].rank # "2" THEN Reject("Must play a 2!")
                        ELSE IF pendingDrawJ > 0 /\ cards[1].rank # "J"
                        THEN Reject("Must play a Jack!")
                        ELSE IF pendingSkip > 0 /\ cards[1].rank # "8"
                        THEN Reject("Play an 8 or Draw!")
                        ELSE IF ~canStart(cards[1], topCard(discard), activeSuit)
                        THEN Reject("Invalid Card")
                        ELSE IF \E i \in 1..(Len(cards) - 1) : ~linkOk(cards[i], cards[i + 1])
                        THEN Reject("Invalid Combo")
                        ELSE B_PlayCards(c, srt, cards)
  /\ UNCHANGED variant

\* ACTION_PICKUP
B_Pickup(c) ==
  /\ variant = "B" /\ c \in clients
  /\ IF turnIndex # c THEN Ignore
     ELSE IF pendingSkip > 0
     THEN /\ pendingSkip' = 0
          /\ B_finishTurn(players, direction)
          /\ Accept("skipped")
          /\ UNCHANGED <<deck, discard, direction, activeSuit, pendingDraw2, pendingDrawJ,
                         extraTurn, awaitingSuit, status, winner>>
     ELSE LET pen == IF pendingDraw2 # 0 THEN pendingDraw2
                     ELSE IF pendingDrawJ # 0 THEN pendingDrawJ ELSE 1
          IN /\ \E r \in draw(deck, discard, pen) :
                  /\ B_finishTurn([players EXCEPT ![c + 1].hand = @ \o r.out], direction)
                  /\ deck' = r.deck /\ discard' = r.discard
             /\ pendingDraw2' = 0 /\ pendingDrawJ' = 0
             /\ Accept("draw")
             /\ UNCHANGED <<direction, activeSuit, pendingSkip, extraTurn, awaitingSuit,
                            status, winner>>
  /\ UNCHANGED <<variant, clients>>

\* ACTION_SUIT
B_Suit(c, ch) ==
  /\ variant = "B" /\ c \in clients
  /\ IF ~awaitingSuit \/ turnIndex # c THEN Ignore
     ELSE /\ activeSuit' = SUIT_MAP(ch)
          /\ awaitingSuit' = FALSE
          /\ B_finishTurn(players, direction)
          /\ Accept("suit")
          /\ UNCHANGED <<deck, discard, direction, pendingDraw2, pendingDrawJ, pendingSkip,
                         extraTurn, status, winner>>
  /\ UNCHANGED <<variant, clients>>

\* ACTION_LAST
B_Last(c) ==
  /\ variant = "B" /\ c \in clients
  /\ players' = [players EXCEPT ![c + 1].lastDeclared = TRUE]
  /\ Accept("last")
  /\ UNCHANGED <<variant, clients, deck, discard, turnIndex, direction, activeSuit,
                 pendingDraw2, pendingDrawJ, pendingSkip, extraTurn, awaitingSuit,
                 status, winner>>

\* ws "close": room.players loses the client, gameState.players does not
B_Close(c) ==
  /\ variant = "B" /\ c \in clients
  /\ clients' = clients \ {c}
  /\ Accept("closed")
  /\ UNCHANGED <<variant, table>>

NextB ==
  \/ \E c \in Seats, indices \in IndexLists : B_Play(c, indices) /\ UNCHANGED <<timers, relay>>
  \/ \E c \in Seats : B_Pickup(c) /\ UNCHANGED <<timers, relay>>
  \/ \E c \in Seats, ch \in SuitChars : B_Suit(c, ch) /\ UNCHANGED <<timers, relay>>
  \/ \E c \in Seats : B_Last(c) /\ UNCHANGED <<timers, relay>>
  \/ \E c \in Seats : B_Close(c) /\ UNCHANGED <<timers, relay>>

SpecB == InitB /\ [][NextB]_vars

(***************************************************************************)
(* The lobby of the same server: CREATE_ROOM, JOIN_ROOM and START_GAME.    *)
(* Before the first start there is no gameState: `players` is empty and    *)
(* `clients` are the entries of room.players.  START_GAME builds a new     *)
(* gameState from room.players whenever the first of them sends it.        *)
(***************************************************************************)
MaxLobby == 3   \* clients in one room

Min(S) == CHOOSE x \in S : \A y \in S : x <= y

\* CREATE_ROOM: a room with its creator
InitLobbyB ==
  /\ variant = "B" /\ moves = 0
  /\ players = <<>> /\ deck = [c \in Cards |-> 0] /\ discard = <<>>
  /\ activeSuit = "" /\ turnIndex = 0 /\ direction = 1
  /\ pendingDraw2 = 0 /\ pendingDrawJ = 0 /\ pendingSkip = 0
  /\ extraTurn = FALSE /\ awaitingSuit = FALSE
  /\ status = "lobby" /\ winner = Null
  /\ clients = {0}
  /\ res = Reply(TRUE, "", "ROOM_JOINED")
  /\ timers = 0 /\ rooms = NoRooms /\ sockets = NoSockets

\* JOIN_ROOM by a new connection
B_Join ==
  /\ variant = "B" /\ clients # {} /\ Cardinality(clients) < MaxLobby
  /\ status \in {"lobby", "playing", "ended"}
  /\ IF status # "lobby" THEN Reject("Game already started") /\ UNCHANGED clients
     ELSE /\ clients' = clients \cup {Cardinality(clients)}
          /\ res' = Reply(TRUE, "", "ROOM_JOINED")
          /\ UNCHANGED <<table, moves>>
  /\ UNCHANGED variant

\* START_GAME -> initGame: only the sender is checked.  With too few cards
\* left for a starter that is no power card the starter loop never ends, or
\* reads the rank of no card: either way the server stops serving.
B_Start(c) ==
  /\ variant = "B" /\ c \in clients
  /\ status \in {"lobby", "playing", "ended"}
  /\ IF c # Min(clients) THEN Ignore /\ UNCHANGED clients
     ELSE LET n == Cardinality(clients) IN
          \E d \in Deals :
            IF n * HandSize + 1 > Len(d) \/ starterAt(d, n * HandSize + 1) = 0
            THEN Crash
            ELSE /\ players' = dealt(n, d).players
                 /\ discard' = dealt(n, d).discard
                 /\ deck' = dealt(n, d).deck
                 /\ activeSuit' = dealt(n, d).activeSuit
                 /\ turnIndex' = 0 /\ direction' = 1
                 /\ pendingDraw2' = 0 /\ pendingDrawJ' = 0 /\ pendingSkip' = 0
                 /\ extraTurn' = FALSE /\ awaitingSuit' = FALSE
                 /\ status' = "playing" /\ winner' = Null
                 /\ clients' = 0..(n - 1)
                 /\ Accept("start")
  /\ UNCHANGED variant

\* ws "close" in the lobby
B_LobbyClose(c) == status = "lobby" /\ B_Close(c)

NextLobbyB ==
  \/ B_Join /\ UNCHANGED <<timers, relay>>
  \/ \E c \in clients : B_Start(c) /\ UNCHANGED <<timers, relay>>
  \/ \E c \in clients : B_LobbyClose(c) /\ UNCHANGED <<timers, relay>>

SpecLobbyB == InitLobbyB /\ [][NextB \/ NextLobbyB]_vars

(***************************************************************************)
(* src/gameEngine.js (createGame / handleAction).  The game object has no  *)
(* status field: `status` stays "playing" and a finished game is one whose *)
(* winner is set.  g.draw is pendingDraw2, g.skip is pendingSkip, p.last   *)
(* is lastDeclared.  A player's name is its index in g.players.            *)
(***************************************************************************)
power(r) == r \in {"A", "2", "8", "J", "Q", "K"}

InitE == variant = "E" /\ moves = 0 /\ \E n \in 2..MaxSeats : dealGame(n)

\* draw(g, p, n): an empty deck is replaced by a fresh one
E_drawStep(r) ==
  LET dk == IF BagSize(r.deck) = 0 THEN createDeck ELSE r.deck
  IN {[deck |-> Take(dk, c), out |-> Append(r.out, c)] : c \in Support(dk)}

RECURSIVE E_draw(_, _)
E_draw(dk, n) ==
  IF n = 0 THEN {[deck |-> dk, out |-> <<>>]}
  ELSE UNION {E_drawStep(r) : r \in E_draw(dk, n - 1)}

\* a turn step that ignores the direction of play (sensitivity of C17)
next_ignoreDir(t, dir, n) == (t + 1) % n

next(t, dir, n) == (t + dir + n) % n

valid(p, cards) ==
  /\ ~(Len(p.hand) - Len(cards) <= 1 /\ ~p.lastDeclared)
  /\ \/ cards[1].rank = "A"
     \/ cards[1].rank = topCard(discard).rank
     \/ cards[1].suit = activeSuit

\* apply(g, c) for cards[1..i]
RECURSIVE E_apply(_, _, _)
E_apply(st, cards, i) ==
  IF i = 0 THEN st
  ELSE LET before == E_apply(st, cards, i - 1)
           r == cards[i].rank
       IN IF r = "2" THEN [before EXCEPT !.pendingDraw2 = @ + 2]
          ELSE IF r = "8" THEN [before EXCEPT !.pendingSkip = @ + 1]
          ELSE IF r = "Q" THEN [before EXCEPT !.direction = @ * (-1)]
          ELSE before

\* the hand positions left after hand.splice(hand.indexOf(c), 1) for the
\* first k cards: a card already gone has indexOf -1, which splices the end
RECURSIVE E_remove(_, _, _)
E_remove(pos, idxs, k) ==
  IF k = 0 THEN pos
  ELSE LET before == E_remove(pos, idxs, k - 1)
       IN IF \E j \in DOMAIN before : before[j] = idxs[k]
          THEN SelectSeq(before, LAMBDA x : x # idxs[k])
          ELSE IF Len(before) = 0 THEN before ELSE Front(before)

Throw == res' = Reply(FALSE, "TypeError", "") /\ UNCHANGED <<table, moves>>

E_Last(i) ==
  /\ variant = "E" /\ i \in Seats
  /\ IF i # turnIndex THEN Reject("Not your turn")
     ELSE /\ players' = [players EXCEPT ![i + 1].lastDeclared = TRUE]
          /\ Accept("last")
          /\ UNCHANGED <<deck, discard, turnIndex, direction, activeSuit, pendingDraw2,
                         pendingDrawJ, pendingSkip, extraTurn, awaitingSuit, status, winner>>
  /\ UNCHANGED <<variant, clients>>

E_Draw(i) ==
  /\ variant = "E" /\ i \in Seats
  /\ IF i # turnIndex THEN Reject("Not your turn")
     ELSE /\ \E r \in E_draw(deck, IF pendingDraw2 # 0 THEN pendingDraw2 ELSE 1) :
               /\ players' = [players EXCEPT ![i + 1] =
                                [hand |-> @.hand \o r.out, lastDeclared |-> FALSE]]
               /\ deck' = r.deck
          /\ pendingDraw2' = 0
          /\ turnIndex' = next(turnIndex, direction, Len(players))
          /\ Accept("draw")
          /\ UNCHANGED <<discard, direction, activeSuit, pendingDrawJ, pendingSkip,
                         extraTurn, awaitingSuit, status, winner>>
  /\ UNCHANGED <<variant, clients>>

\* a faulty win that also passes the turn on (sensitivity of C5)
E_Win_passTurn(i) == winner' = i /\ turnIndex' = next(turnIndex, direction, Len(players))

\* handleAction's "g.winner = p.name; return {}"
E_Win(i) == winner' = i /\ UNCHANGED turnIndex

\* handleAction "play" once valid() has passed
E_PlayCards(i, idxs, cards) ==
  LET hand == players[i + 1].hand
      pos == E_remove([k \in 1..Len(hand) |-> k - 1], idxs, Len(idxs))
      hand1 == [k \in 1..Len(pos) |-> At(hand, pos[k])]
      st == E_apply(Effects, cards, Len(cards))
      last == cards[Len(cards)]
      n == Len(players)
  IN /\ discard' = discard \o cards
     /\ SetEffects(st)
     /\ IF Len(hand1) = 0 /\ power(last.rank)
        THEN /\ \E r \in E_draw(deck, 2) :
                  /\ players' = [players EXCEPT ![i + 1] =
                                   [hand |-> r.out, lastDeclared |-> FALSE]]
                  /\ deck' = r.deck
             /\ turnIndex' = next(turnIndex, st.direction, n)
             /\ Accept("power finish")
             /\ UNCHANGED <<activeSuit, winner>>
        ELSE IF Len(hand1) = 0
        THEN /\ players' = [players EXCEPT ![i + 1].hand = hand1]
             /\ E_Win(i)
             /\ Accept("wins!")
             /\ UNCHANGED <<deck, activeSuit>>
        ELSE /\ players' = [players EXCEPT ![i + 1].hand = hand1]
             /\ activeSuit' = IF last.rank # "A" THEN last.suit ELSE activeSuit
             /\ turnIndex' = next(turnIndex, st.direction, n)
             /\ Accept("played")
             /\ UNCHANGED <<deck, winner>>
     /\ UNCHANGED <<extraTurn, awaitingSuit, status>>

\* a.cards holds hand positions; past the first, only positions the hand has
E_Play(i, idxs) ==
  /\ variant = "E" /\ i \in Seats
  /\ \A k \in 2..Len(idxs) : idxs[k] >= 0 /\ idxs[k] < Len(players[i + 1].hand)
  /\ IF i # turnIndex THEN Reject("Not your turn")
     ELSE LET p == players[i + 1] IN
          IF Len(p.hand) - Len(idxs) <= 1 /\ ~p.lastDeclared THEN Reject("Illegal move")
          ELSE IF Len(idxs) = 0 \/ idxs[1] < 0 \/ idxs[1] >= Len(p.hand) THEN Throw
          ELSE LET cards == [k \in DOMAIN idxs |-> At(p.hand, idxs[k])]
               IN IF ~valid(p, cards) THEN Reject("Illegal move")
                  ELSE E_PlayCards(i, idxs, cards)
  /\ UNCHANGED <<variant, clients>>

NextE ==
  \/ \E i \in Seats : E_Last(i) /\ UNCHANGED <<timers, relay>>
  \/ \E i \in Seats : E_Draw(i) /\ UNCHANGED <<timers, relay>>
  \/ \E i \in Seats, idxs \in IndexLists : E_Play(i, idxs) /\ UNCHANGED <<timers, relay>>

SpecE == InitE /\ [][NextE]_vars

\* createGame(id, names) with three names: the engine takes any list of names
InitE3 == variant = "E" /\ moves = 0 /\ dealGame(3)

(***************************************************************************)
(* src/unnamed/part_000, first server (startGame / doDraw / doPlay).  A    *)
(* card's id is the card: startGame gives every card of the deck its own.  *)
(* room.started is status "playing"; s._extraTurn is extraTurn.  A client  *)
(* that leaves is filtered out of room.players.                            *)
(***************************************************************************)
\* startGame's starter: the first card that is no power card, or whatever is
\* on top after 50 tries
D_starter(d, k) ==
  IF starterAt(d, k) # 0 THEN starterAt(d, k)
  ELSE k + (50 % (Len(d) - k + 1))

startGame(n) ==
  \E d \in Deals :
    LET st == D_starter(d, n * HandSize + 1) IN
    /\ n * HandSize + 1 <= Len(d)
    /\ players = [i \in 1..n |->
                    [hand |-> [r \in 1..HandSize |-> d[(r - 1) * n + i]],
                     lastDeclared |-> FALSE]]
    /\ discard = <<d[st]>>
    /\ deck = [c \in Cards |->
                 IF \E k \in DOMAIN d : d[k] = c /\ k > n * HandSize /\ k # st THEN 1 ELSE 0]
    /\ activeSuit = d[st].suit
    /\ turnIndex = 0
    /\ direction = 1
    /\ pendingDraw2 = 0 /\ pendingDrawJ = 0 /\ pendingSkip = 0
    /\ extraTurn = FALSE
    /\ awaitingSuit = FALSE
    /\ status = "playing"
    /\ winner = Null
    /\ clients = 0..(n - 1)
    /\ res = Reply(TRUE, "", "start")
    /\ timers = 0 /\ rooms = NoRooms /\ sockets = NoSockets

InitD == variant = "D" /\ moves = 0 /\ \E n \in 2..MaxSeats : startGame(n)

\* Object.keys(counts).reduce((a, b) => counts[a] > counts[b] ? a : b)
RECURSIVE D_reduce(_, _, _)
D_reduce(hand, a, k) ==
  LET count(s) == Cardinality({i \in DOMAIN hand : hand[i].suit = s})
  IN IF k > Len(SuitOrder) THEN a
     ELSE D_reduce(hand, IF count(a) > count(SuitOrder[k]) THEN a ELSE SuitOrder[k], k + 1)

D_bestSuit(hand) == D_reduce(hand, SuitOrder[1], 2)

D_applyPower(st, card, hand, isLast) ==
  LET r == card.rank IN
  IF r = "A" /\ isLast THEN [st EXCEPT !.activeSuit = D_bestSuit(hand)]
  ELSE IF r = "2" THEN [st EXCEPT !.pendingDraw2 = @ + 2]
  ELSE IF r = "8" THEN [st EXCEPT !.pendingSkip = @ + 1]
  ELSE IF r = "Q" THEN [st EXCEPT !.direction = @ * (-1)]
  ELSE IF r = "K" THEN [st EXCEPT !.extraTurn = TRUE]
  ELSE IF r = "J" THEN
         IF card.suit \in {"H", "D"} THEN [st EXCEPT !.pendingDrawJ = 0]
         ELSE [st EXCEPT !.pendingDrawJ = @ + 5]
  ELSE st

RECURSIVE D_powerLoop(_, _, _, _)
D_powerLoop(st, cards, hand, i) ==
  IF i = 0 THEN st
  ELSE LET before == D_powerLoop(st, cards, hand, i - 1)
       IN IF cards[i].rank \in POWER_RANKS /\ (isSetOf(cards) \/ i = Len(cards))
          THEN D_applyPower(before, cards[i], hand, i = Len(cards))
          ELSE before

\* advanceTurn(room): an extra turn keeps the seat
D_advanceTurn(xt, dir, n) ==
  /\ extraTurn' = FALSE
  /\ turnIndex' = IF xt THEN turnIndex ELSE (turnIndex + dir + n) % n

\* one round of doDraw's loop: an empty deck takes the discard pile under its
\* top card; with nothing to take the loop breaks
D_drawStep(r) ==
  LET fed == IF BagSize(r.deck) = 0 /\ Len(r.discard) > 1
             THEN [deck |-> BagOfSeq(Front(r.discard)), discard |-> <<Last(r.discard)>>]
             ELSE [deck |-> r.deck, discard |-> r.discard]
  IN IF BagSize(fed.deck) > 0
     THEN {[deck |-> Take(fed.deck, c), discard |-> fed.discard, out |-> Append(r.out, c)] :
             c \in Support(fed.deck)}
     ELSE {[deck |-> fed.deck, discard |-> fed.discard, out |-> r.out]}

RECURSIVE D_drawLoop(_, _, _)
D_drawLoop(dk, dc, n) ==
  IF n = 0 THEN {[deck |-> dk, discard |-> dc, out |-> <<>>]}
  ELSE UNION {D_drawStep(r) : r \in D_drawLoop(dk, dc, n - 1)}

\* deck.pop() while the deck has a card, at most n times
PopStep(r) ==
  IF BagSize(r.deck) = 0 THEN {r}
  ELSE {[deck |-> Take(r.deck, c), out |-> Append(r.out, c)] : c \in Support(r.deck)}

RECURSIVE Pops(_, _)
Pops(dk, n) ==
  IF n = 0 THEN {[deck |-> dk, out |-> <<>>]}
  ELSE UNION {PopStep(r) : r \in Pops(dk, n - 1)}

\* the "Recycle deck if needed" block of doPlay's power finish
D_recycle(dk, dc) ==
  IF BagSize(dk) < 2 /\ Len(dc) > 1
  THEN [deck |-> BagOfSeq(Front(dc)), discard |-> <<Last(dc)>>]
  ELSE [deck |-> dk, discard |-> dc]

\* the guards of the message handler in front of draw, last, play and suit
D_Guard(i, then) ==
  IF status # "playing" THEN Reject("Game not started")
  ELSE IF turnIndex # i THEN Reject("Not your turn")
  ELSE then

D_Draw(i) ==
  /\ variant = "D" /\ i \in Seats
  /\ D_Guard(i,
       IF pendingSkip > 0
       THEN /\ pendingSkip' = pendingSkip - 1
            /\ players' = [players EXCEPT ![i + 1].lastDeclared = FALSE]
            /\ D_advanceTurn(extraTurn, direction, Len(players))
            /\ Accept("missed turn")
            /\ UNCHANGED <<deck, discard, direction, activeSuit, pendingDraw2, pendingDrawJ,
                           awaitingSuit, status, winner>>
       ELSE LET pen == IF pendingDraw2 > 0 THEN pendingDraw2
                       ELSE IF pendingDrawJ > 0 THEN pendingDrawJ ELSE 1
            IN /\ \E r \in D_drawLoop(deck, discard, pen) :
                    /\ players' = [players EXCEPT ![i + 1] =
                                     [hand |-> @.hand \o r.out, lastDeclared |-> FALSE]]
                    /\ deck' = r.deck /\ discard' = r.discard
               /\ pendingDraw2' = 0
               /\ pendingDrawJ' = IF pendingDraw2 > 0 THEN pendingDrawJ ELSE 0
               /\ D_advanceTurn(extraTurn, direction, Len(players))
               /\ Accept("drew")
               /\ UNCHANGED <<direction, activeSuit, pendingSkip, awaitingSuit, status, winner>>)
  /\ UNCHANGED <<variant, clients>>

D_Last(i) ==
  /\ variant = "D" /\ i \in Seats
  /\ D_Guard(i,
       /\ players' = [players EXCEPT ![i + 1].lastDeclared = TRUE]
       /\ Accept("shouts LAST!")
       /\ UNCHANGED <<deck, discard, turnIndex, direction, activeSuit, pendingDraw2,
                      pendingDrawJ, pendingSkip, extraTurn, awaitingSuit, status, winner>>)
  /\ UNCHANGED <<variant, clients>>

\* the "suit" message is taken and ignored
D_Suit(i) ==
  /\ variant = "D" /\ i \in Seats
  /\ D_Guard(i, Accept("suit") /\ UNCHANGED table)
  /\ UNCHANGED <<variant, clients>>

\* doPlay from "remove from hand" on; cards are the cards named by cardIds
D_PlayCards(i, cards) ==
  LET p == players[i + 1]
      hand1 == SelectSeq(p.hand, LAMBDA c : \A k \in DOMAIN cards : cards[k] # c)
      finishedNow == Len(hand1) = 0
      st == D_powerLoop(Effects, cards, hand1, Len(cards))
      lastCard == cards[Len(cards)]
      suit1 == IF lastCard.rank # "A" THEN lastCard.suit ELSE st.activeSuit
      discard1 == discard \o cards
      n == Len(players)
  IN /\ SetEffects(st)
     /\ IF finishedNow /\ lastCard.rank \in POWER_RANKS
        THEN LET rc == D_recycle(deck, discard1) IN
             /\ \E r \in Pops(rc.deck, 2) :
                  /\ players' = [players EXCEPT ![i + 1] =
                                   [hand |-> r.out, lastDeclared |-> FALSE]]
                  /\ deck' = r.deck
                  /\ activeSuit' = IF lastCard.rank = "A" THEN D_bestSuit(r.out) ELSE suit1
             /\ discard' = rc.discard
             /\ D_advanceTurn(FALSE, st.direction, n)
             /\ Accept("Can't end on a power card! Drew 2")
             /\ UNCHANGED <<status, winner>>
        ELSE IF finishedNow
        THEN /\ players' = [players EXCEPT ![i + 1].hand = hand1]
             /\ discard' = discard1
             /\ activeSuit' = suit1
             /\ extraTurn' = st.extraTurn
             /\ winner' = i /\ status' = "ended"
             /\ Accept("Winner")
             /\ UNCHANGED <<deck, turnIndex>>
        ELSE /\ players' = [players EXCEPT ![i + 1].hand = hand1]
             /\ discard' = discard1
             /\ activeSuit' = suit1
             /\ D_advanceTurn(st.extraTurn, st.direction, n)
             /\ Accept("played")
             /\ UNCHANGED <<deck, status, winner>>

D_Play(i, cardIds) ==
  /\ variant = "D" /\ i \in Seats
  /\ D_Guard(i,
       LET hand == players[i + 1].hand IN
       IF Len(cardIds) = 0 THEN Reject("No cards")
       ELSE IF \E k \in DOMAIN cardIds : \A j \in DOMAIN hand : hand[j] # cardIds[k]
       THEN Reject("Invalid selection")
       ELSE IF pendingDraw2 > 0 /\ cardIds[1].rank # "2" THEN Reject("Must play a 2!")
       ELSE IF pendingDrawJ > 0 /\ cardIds[1].rank # "J"
       THEN Reject("Must play a Jack (or DRAW)!")
       ELSE IF pendingSkip > 0 /\ cardIds[1].rank # "8" THEN Reject("Can only stack an 8!")
       ELSE IF ~canStart(cardIds[1], topCard(discard), activeSuit) THEN Reject("Invalid Card")
       ELSE IF \E k \in 1..(Len(cardIds) - 1) : ~linkOk(cardIds[k], cardIds[k + 1])
       THEN Reject("Invalid Combo")
       ELSE D_PlayCards(i, cardIds) /\ UNCHANGED awaitingSuit)
  /\ UNCHANGED <<variant, clients>>

\* s without its element at (0-based) position i
RemoveAt(s, i) == [j \in 1..(Len(s) - 1) |-> IF j <= i THEN s[j] ELSE s[j + 1]]

\* removeClient (the "leave" message and ws "close")
D_Leave(i) ==
  /\ variant = "D" /\ i \in Seats
  /\ players' = RemoveAt(players, i)
  /\ clients' = 0..(Len(players) - 2)
  /\ status' = IF Len(players) > 1 /\ status = "playing" THEN "ended" ELSE status
  /\ Accept("Player left - game ended")
  /\ UNCHANGED <<variant, deck, discard, turnIndex, direction, activeSuit, pendingDraw2,
                 pendingDrawJ, pendingSkip, extraTurn, awaitingSuit, winner>>

IdLists == SeqsUpTo(DeckCards, MaxPlay)

NextD ==
  \/ \E i \in Seats : D_Draw(i) /\ UNCHANGED <<timers, relay>>
  \/ \E i \in Seats : D_Last(i) /\ UNCHANGED <<timers, relay>>
  \/ \E i \in Seats : D_Suit(i) /\ UNCHANGED <<timers, relay>>
  \/ \E i \in Seats, cardIds \in IdLists : D_Play(i, cardIds) /\ UNCHANGED <<timers, relay>>
  \/ \E i \in Seats : D_Leave(i) /\ UNCHANGED <<timers, relay>>

SpecD == InitD /\ [][NextD]_vars

\* A position of a running two-player match in which the deck has been drawn
\* out: seat 0 was dealt A-spades and 2-spades, seat 1 Q-hearts and K-hearts,
\* the starter was 7-hearts; seat 0 played the Ace (suit: spades), seat 1 drew
\* 5-hearts, seat 0 drew 6-hearts, and seat 1's draw recycled the 7-hearts from
\* under the Ace.
DryDeck ==
  /\ variant = "D" /\ moves = 0
  /\ players = << [hand |-> <<Card("2", "S"), Card("6", "H")>>, lastDeclared |-> FALSE],
                  [hand |-> <<Card("Q", "H"), Card("K", "H"), Card("5", "H"), Card("7", "H")>>,
                   lastDeclared |-> FALSE] >>
  /\ discard = <<Card("A", "S")>>
  /\ deck = [c \in Cards |-> 0]
  /\ activeSuit = "S"
  /\ turnIndex = 0
  /\ direction = 1
  /\ pendingDraw2 = 0 /\ pendingDrawJ = 0 /\ pendingSkip = 0
  /\ extraTurn = FALSE
  /\ awaitingSuit = FALSE
  /\ status = "playing"
  /\ winner = Null
  /\ clients = 0..1
  /\ res = Reply(TRUE, "", "drew")
  /\ timers = 0 /\ rooms = NoRooms /\ sockets = NoSockets


(***************************************************************************)
(* src/unnamed/part_000, second server (handlePlay / handleDraw /          *)
(* finishTurn / botTurn).  A bot is a player of the room that is no        *)
(* connected client; `timers` counts the botTurn calls that setTimeout has *)
(* scheduled and that have not run yet.  room.inGame is                    *)
(* status "playing"; lastCalled is lastDeclared; the room keeps no winner: *)
(* the winning play ends in a ReferenceError that stops the process.       *)
(* A client that closes is filtered out of room.players, so `clients` are  *)
(* the positions of room.players.  ACTION_SUIT stores a suit symbol, which *)
(* is no suit letter of a card: symbols are written out ("hearts").        *)
(***************************************************************************)
F_SuitInputs == {"H", "S", "?"}

canPlayOn(card, top, suit) ==
  card.rank = "A" \/ card.rank = top.rank \/ card.suit = suit

F_symbol(ch) ==
  CASE ch = "H" -> "hearts" [] ch = "D" -> "diamonds" [] ch = "C" -> "clubs"
    [] OTHER -> "spades"

\* START_GAME: a host alone is given a bot as second player; every player
\* takes HandSize cards off the deck in turn, then a starter that is no power
\* card is flipped.  n players, of which the first h are connected clients
F_start(n, h) ==
  \E d \in Deals :
    LET st == starterAt(d, n * HandSize + 1) IN
    /\ n * HandSize + 1 <= Len(d)
    /\ st # 0
    /\ players = [i \in 1..n |->
                    [hand |-> [r \in 1..HandSize |-> d[(i - 1) * HandSize + r]],
                     lastDeclared |-> FALSE]]
    /\ discard = <<d[st]>>
    /\ deck = [c \in Cards |->
                 IF \E k \in DOMAIN d : d[k] = c /\ k > n * HandSize /\ k # st THEN 1 ELSE 0]
    /\ activeSuit = d[st].suit
    /\ turnIndex = 0
    /\ direction = 1
    /\ pendingDraw2 = 0 /\ pendingDrawJ = 0 /\ pendingSkip = 0
    /\ extraTurn = FALSE
    /\ awaitingSuit = FALSE
    /\ status = "playing"
    /\ winner = Null
    /\ clients = 0..(h - 1)
    /\ res = Reply(TRUE, "", "start")
    /\ timers = 0 /\ rooms = NoRooms /\ sockets = NoSockets

InitF == variant = "F" /\ moves = 0 /\ \E n \in 2..MaxSeats : F_start(n, n)

\* START_GAME in a room that three clients have joined (JOIN_ROOM has no cap)
InitF3 == variant = "F" /\ moves = 0 /\ F_start(3, 3)

\* START_GAME by a host who is alone in the room: the second player is a bot
InitBots == variant = "F" /\ moves = 0 /\ F_start(2, 1)

\* p.isBot: the players of this server that are no connected client
isBot(seat) == seat \notin clients

\* JavaScript's %: the sign of the dividend
JsRem(a, n) == IF a >= 0 THEN a % n ELSE -((-a) % n)

\* room.players[room.turnIndex] is undefined
F_noCurrent == turnIndex < 0 \/ turnIndex >= Len(players)

\* finishTurn(room), given the players, flags and counters the caller leaves
\* and the timeouts pending when it is called: a bot that gets the turn has a
\* botTurn scheduled
F_finishTurn(ps, aw, xt, dir, skip, tm) ==
  IF aw
  THEN /\ players' = ps /\ extraTurn' = xt /\ pendingSkip' = skip /\ timers' = tm
       /\ UNCHANGED turnIndex
  ELSE IF xt
  THEN /\ players' = ps /\ extraTurn' = FALSE /\ pendingSkip' = skip /\ timers' = tm
       /\ UNCHANGED turnIndex
  ELSE LET n == Len(ps)
           t == JsRem(turnIndex + dir * (1 + skip), n)
           t1 == IF t < 0 THEN t + n ELSE t
       IN /\ players' = [ps EXCEPT ![turnIndex + 1].lastDeclared = FALSE]
          /\ extraTurn' = FALSE
          /\ pendingSkip' = 0
          /\ turnIndex' = t1
          /\ timers' = IF isBot(t1) THEN tm + 1 ELSE tm

\* the effect of each played Jack, in play order
RECURSIVE F_jacks(_, _, _)
F_jacks(pj, cards, i) ==
  IF i = 0 THEN pj
  ELSE IF cards[i].suit \in {"S", "C"} THEN F_jacks(pj, cards, i - 1) + 5 ELSE 0

\* the play empties the hand on a card that is no power card: handlePlay's
\* "WINNER!" branch calls broadcast, which this server does not define
F_wins(c, cards) ==
  /\ \A j \in DOMAIN players[c + 1].hand :
        \E k \in DOMAIN cards : cards[k] = players[c + 1].hand[j]
  /\ cards[Len(cards)].rank \notin POWER_RANKS

\* handlePlay from "REMOVE CARDS" on, for a play that does not win; ps is
\* room.players and tm the timeouts pending when handlePlay is called
F_PlayCards(ps, c, cards, ch, tm) ==
  LET p == ps[c + 1]
      hand1 == SelectSeq(p.hand, LAMBDA x : \A k \in DOMAIN cards : cards[k] # x)
      last == cards[Len(cards)]
      ps1 == [ps EXCEPT ![c + 1].hand = hand1]
      dir1 == IF last.rank = "Q" THEN direction * (-1) ELSE direction
      pd2 == IF last.rank = "2" THEN pendingDraw2 + 2 * Len(cards) ELSE pendingDraw2
      skip1 == IF last.rank = "8" THEN pendingSkip + Len(cards) ELSE pendingSkip
      xt1 == extraTurn \/ last.rank = "K"
      pdJ == IF last.rank = "J" THEN F_jacks(pendingDrawJ, cards, Len(cards))
             ELSE pendingDrawJ
  IN /\ discard' = discard \o cards
     /\ IF Len(hand1) = 0 /\ last.rank \in POWER_RANKS
        THEN /\ \E r \in Pops(deck, 2) :
                  /\ F_finishTurn([ps1 EXCEPT ![c + 1] = [hand |-> r.out, lastDeclared |-> FALSE]],
                                  FALSE, FALSE, direction, pendingSkip, tm)
                  /\ deck' = r.deck
             /\ awaitingSuit' = FALSE
             /\ Accept("Can't finish on a Power Card! Drew 2.")
             /\ UNCHANGED <<direction, activeSuit, pendingDraw2, pendingDrawJ, status, winner>>
        ELSE /\ direction' = dir1 /\ pendingDraw2' = pd2 /\ pendingDrawJ' = pdJ
             /\ UNCHANGED <<deck, status, winner>>
             /\ IF last.rank = "A" /\ ch \notin {"S", "H", "D", "C"}
                THEN /\ players' = ps1 /\ awaitingSuit' = TRUE
                     /\ pendingSkip' = skip1 /\ extraTurn' = xt1
                     /\ timers' = tm
                     /\ Accept("awaiting suit")
                     /\ UNCHANGED <<turnIndex, activeSuit>>
                ELSE /\ activeSuit' = IF last.rank = "A" THEN ch ELSE last.suit
                     /\ F_finishTurn(ps1, FALSE, xt1, dir1, skip1, tm)
                     /\ awaitingSuit' = FALSE
                     /\ Accept("played")

\* handlePlay(room, p, cardIds, suitChoice) for the player at position c and
\* the cards its ids name; an error return leaves the room as the caller
\* passed it
F_handlePlay(ps, c, cards, ch, tm) ==
  LET err ==
        IF turnIndex # c THEN "Not your turn"
        ELSE IF awaitingSuit THEN "Waiting for suit selection"
        ELSE IF Len(cards) = 0 THEN "No cards selected"
        ELSE IF \E k \in DOMAIN cards : cards[k].rank # cards[1].rank
        THEN "Must play same ranks together"
        ELSE IF pendingDraw2 > 0 /\ cards[1].rank # "2" THEN "Must play a 2"
        ELSE IF pendingDrawJ > 0 /\ cards[1].rank # "J" THEN "Must play a Jack"
        ELSE IF ~canPlayOn(cards[1], topCard(discard), activeSuit) THEN "Invalid card"
        ELSE ""
  IN IF F_noCurrent THEN Crash
     ELSE IF err # ""
     THEN /\ res' = Reply(FALSE, err, "")
          /\ players' = ps /\ timers' = tm
          /\ UNCHANGED <<deck, discard, turnIndex, direction, activeSuit, pendingDraw2,
                         pendingDrawJ, pendingSkip, extraTurn, awaitingSuit, status,
                         winner, moves, clients>>
     ELSE IF F_wins(c, cards) THEN Crash
     ELSE F_PlayCards(ps, c, cards, ch, tm) /\ UNCHANGED clients

\* ACTION_PLAY: positions the hand does not have are dropped, the rest are
\* turned into card ids for handlePlay.  (The handler first calls handlePlay
\* with the positions themselves, which name no card: that call changes
\* nothing and its answer is dropped.)
F_Play(c, indices, ch) ==
  /\ variant = "F" /\ c \in clients
  /\ LET hand == players[c + 1].hand
         kept == SelectSeq(indices, LAMBDA x : x >= 0 /\ x < Len(hand))
         cards == [k \in DOMAIN kept |-> At(hand, kept[k])]
     IN F_handlePlay(players, c, cards, ch, timers)
  /\ UNCHANGED variant

\* handleDraw(room, p) for the player at position c
F_handleDraw(c, tm) ==
  IF F_noCurrent THEN Crash
  ELSE /\ UNCHANGED clients
       /\ IF turnIndex # c THEN Ignore /\ timers' = tm
          ELSE LET count == IF pendingDraw2 > 0 THEN pendingDraw2
                            ELSE IF pendingDrawJ > 0 THEN pendingDrawJ
                            ELSE IF pendingSkip > 0 THEN 0 ELSE 1
                   skip1 == IF pendingDraw2 = 0 /\ pendingDrawJ = 0 THEN 0 ELSE pendingSkip
                   refill == count > 0 /\ BagSize(deck) < count
                   dk == IF refill
                         THEN [x \in Cards |-> deck[x] + BagOfSeq(Front(discard))[x]]
                         ELSE deck
               IN /\ discard' = IF refill THEN <<Last(discard)>> ELSE discard
                  /\ \E r \in Pops(dk, count) :
                       /\ F_finishTurn([players EXCEPT ![c + 1].hand = @ \o r.out],
                                       awaitingSuit, extraTurn, direction, skip1, tm)
                       /\ deck' = r.deck
                  /\ pendingDraw2' = 0
                  /\ pendingDrawJ' = IF pendingDraw2 > 0 THEN pendingDrawJ ELSE 0
                  /\ Accept("draw")
                  /\ UNCHANGED <<direction, activeSuit, awaitingSuit, status, winner>>

\* ACTION_PICKUP -> handleDraw
F_Pickup(c) ==
  /\ variant = "F" /\ c \in clients
  /\ F_handleDraw(c, timers)
  /\ UNCHANGED variant

\* ACTION_LAST
F_Last(c) ==
  /\ variant = "F" /\ c \in clients
  /\ players' = [players EXCEPT ![c + 1].lastDeclared = TRUE]
  /\ Accept("last")
  /\ UNCHANGED <<variant, clients, deck, discard, turnIndex, direction, activeSuit,
                 pendingDraw2, pendingDrawJ, pendingSkip, extraTurn, awaitingSuit,
                 status, winner, timers>>

\* ACTION_SUIT: no check of the sender, of the turn or of awaitingSuit
F_Suit(c, ch) ==
  /\ variant = "F" /\ c \in clients
  /\ IF ~extraTurn /\ F_noCurrent THEN Crash
     ELSE /\ activeSuit' = F_symbol(ch)
          /\ awaitingSuit' = FALSE
          /\ F_finishTurn(players, FALSE, extraTurn, direction, pendingSkip, timers)
          /\ Accept("suit")
          /\ UNCHANGED <<clients, deck, discard, direction, pendingDraw2, pendingDrawJ,
                         status, winner>>
  /\ UNCHANGED variant

\* ws "close": the player is filtered out of room.players; nothing else of the
\* room is touched
F_Close(c) ==
  /\ variant = "F" /\ c \in clients
  /\ players' = RemoveAt(players, c)
  /\ clients' = {IF s > c THEN s - 1 ELSE s : s \in clients \ {c}}
  /\ Accept("closed")
  /\ UNCHANGED <<variant, deck, discard, turnIndex, direction, activeSuit, pendingDraw2,
                 pendingDrawJ, pendingSkip, extraTurn, awaitingSuit, status, winner,
                 timers>>

NextF ==
  \/ \E c \in Seats, indices \in IndexLists, ch \in F_SuitInputs : F_Play(c, indices, ch) /\ UNCHANGED relay
  \/ \E c \in Seats : F_Pickup(c) /\ UNCHANGED relay
  \/ \E c \in Seats : F_Last(c) /\ UNCHANGED relay
  \/ \E c \in Seats, ch \in F_SuitInputs : F_Suit(c, ch) /\ UNCHANGED relay
  \/ \E c \in Seats : F_Close(c) /\ UNCHANGED relay

SpecF == InitF /\ [][NextF]_vars

\* botTurn(room), run by a timeout that finishTurn has set: the bot plays the
\* first card of its hand that it can play (with every other card of that
\* rank, calling LAST when that leaves it at most one card, and with a random
\* suit for an Ace), or draws
F_botTurn ==
  /\ variant = "F" /\ timers > 0
  /\ IF status # "playing"
     THEN /\ timers' = timers - 1 /\ res' = Reply(FALSE, "", "")
          /\ UNCHANGED <<table, moves, clients>>
     ELSE IF F_noCurrent THEN Crash
     ELSE IF ~isBot(turnIndex)
     THEN /\ timers' = timers - 1 /\ res' = Reply(FALSE, "", "")
          /\ UNCHANGED <<table, moves, clients>>
     ELSE LET hand == players[turnIndex + 1].hand
              playable == SelectSeq(hand, LAMBDA x : canPlayOn(x, topCard(discard), activeSuit))
              candidates ==
                IF pendingDrawJ > 0 THEN SelectSeq(playable, LAMBDA x : x.rank = "J")
                ELSE IF pendingDraw2 > 0 THEN SelectSeq(playable, LAMBDA x : x.rank = "2")
                ELSE playable
          IN IF Len(candidates) > 0
             THEN LET c == candidates[1]
                      toPlay == <<c>> \o SelectSeq(hand, LAMBDA x : x.rank = c.rank /\ x # c)
                      ps == IF Len(hand) - Len(toPlay) <= 1
                            THEN [players EXCEPT ![turnIndex + 1].lastDeclared = TRUE]
                            ELSE players
                  IN \E suit \in IF c.rank = "A" THEN {"S", "H", "D", "C"} ELSE {"?"} :
                       F_handlePlay(ps, turnIndex, toPlay, suit, timers - 1)
             ELSE F_handleDraw(turnIndex, timers - 1)
  /\ UNCHANGED variant

NextBots == NextF \/ (F_botTurn /\ UNCHANGED relay)

SpecBots == InitBots /\ [][NextBots]_vars


(***************************************************************************)
(* Specifications that run several servers: Init picks the server, and     *)
(* every action is guarded by `variant`.                                   *)
(***************************************************************************)
SpecAB == (InitA \/ InitB) /\ [][NextA \/ NextB]_vars
SpecAE == (InitA \/ InitE) /\ [][NextA \/ NextE]_vars
SpecAE3 == (InitA \/ InitE \/ InitE3) /\ [][NextA \/ NextE]_vars
SpecEight == (InitA \/ EightStack \/ InitB \/ InitD) /\ [][NextA \/ NextB \/ NextD]_vars
SpecKings == (InitA \/ KingPair \/ InitD) /\ [][NextA \/ NextD]_vars
SpecKing == (InitA \/ KingLeft \/ InitE3) /\ [][NextA \/ NextE]_vars
SpecABE == (InitA \/ InitB \/ InitE) /\ [][NextA \/ NextB \/ NextE]_vars
SpecAF == (InitA \/ InitF) /\ [][NextA \/ NextF]_vars
SpecABF3 == (InitA \/ InitB \/ InitF \/ InitF3) /\ [][NextA \/ NextB \/ NextF]_vars
SpecBF == (InitB \/ InitF) /\ [][NextB \/ NextF]_vars
SpecAD == (InitA \/ InitD) /\ [][NextA \/ NextD]_vars
SpecADry == (InitA \/ InitD \/ DryDeck) /\ [][NextA \/ NextD]_vars
SpecABD == (InitA \/ InitB \/ InitD) /\ [][NextA \/ NextB \/ NextD]_vars
Init == InitA \/ InitB \/ InitD \/ InitE \/ InitF
Next == NextA \/ NextB \/ NextD \/ NextE \/ NextF
Spec == Init /\ [][Next]_vars

(***************************************************************************)
(* Vocabulary of the properties.                                           *)
(***************************************************************************)
RECURSIVE HandTotal(_, _)
HandTotal(ps, k) == IF k = 0 THEN 0 ELSE Len(ps[k].hand) + HandTotal(ps, k - 1)

TotalCards == HandTotal(players, Len(players)) + BagSize(deck) + Len(discard)

Hands == [k \in DOMAIN players |-> players[k].hand]

\* gameEngine.js has no status: its match is over when a winner is set
Ended == status = "ended" \/ (variant = "E" /\ winner # Null)

\* the seat sends a PLAY intent with this selection
PlayIntent(seat, sel) == A_Play(seat, sel) \/ B_Play(seat, sel) \/ E_Play(seat, sel)

DrawIntent(seat) == A_Draw(seat) \/ B_Pickup(seat) \/ E_Draw(seat)

LastIntent(seat) == A_DeclareLast(seat) \/ B_Last(seat) \/ E_Last(seat)

\* the selection takes every card out of the seat's hand
PlaysOut(seat, sel) ==
  LET hand == players[seat + 1].hand IN
  CASE variant = "A" -> SpliceOut(hand, {sel[k] : k \in DOMAIN sel}, 1) = <<>>
    [] variant = "B" -> SpliceAll(hand, SortDesc(sel), Len(sel)) = <<>>
    [] variant = "E" -> E_remove([k \in 1..Len(hand) |-> k - 1], sel, Len(sel)) = <<>>
    [] OTHER -> FALSE

\* the card of an accepted selection that is played last
LastPlayed(seat, sel) ==
  LET hand == players[seat + 1].hand
      S == {sel[k] : k \in DOMAIN sel}
  IN CASE variant = "A" -> At(hand, CHOOSE x \in S : \A y \in S : x <= y)
       [] variant = "B" -> At(hand, CHOOSE x \in S : \A y \in S : y <= x)
       [] OTHER -> At(hand, sel[Len(sel)])

\* C1: hands, deck and discard pile together always hold exactly the cards of
\* one deck (52 in the code, DeckCards here), also after draw has refilled an
\* exhausted deck.
C1_Conservation == TotalCards = Cardinality(DeckCards)

\* how often each card id occurs in deck, discard pile and hands together
RECURSIVE InHands(_, _, _)
InHands(ps, c, k) ==
  IF k = 0 THEN 0
  ELSE Cardinality({j \in DOMAIN ps[k].hand : ps[k].hand[j] = c}) + InHands(ps, c, k - 1)

AllCards ==
  [c \in Cards |->
     deck[c] + Cardinality({j \in DOMAIN discard : discard[j] = c})
       + InHands(players, c, Len(players))]

\* C2: no draw and no play, with the reshuffles and penalty draws they make,
\* changes the multiset of card ids held by deck, discard pile and hands: no
\* id is lost and none appears twice.
C2_IdsPreserved ==
  [][(\E i \in Seats : D_Draw(i) \/ \E cardIds \in IdLists : D_Play(i, cardIds))
     => AllCards' = AllCards]_vars

\* C3: an accepted play that takes the acting seat's last card while its LAST
\* flag is false leaves the seat with cards in hand, does not end the match and
\* does not record the seat as winner (applyAction PLAY and handlePlay).
C3_DirtyFinish ==
  [][\A seat \in Seats, sel \in IndexLists :
       (res'.ok /\ ~players[seat + 1].lastDeclared
          /\ (A_Play(seat, sel) \/ B_Play(seat, sel)) /\ PlaysOut(seat, sel))
       => (Len(players'[seat + 1].hand) > 0 /\ status' # "ended" /\ winner' # seat)]_vars

\* C4: an accepted play that empties the acting seat's hand with a power card
\* played last leaves the seat with penalty cards in hand, the match not ended,
\* no winner recorded, and the turn passed on.
C4_PowerFinish ==
  [][\A seat \in Seats, sel \in IndexLists :
       (res'.ok /\ PlayIntent(seat, sel) /\ PlaysOut(seat, sel)
          /\ LastPlayed(seat, sel).rank \in POWER_RANKS)
       => (/\ Len(players'[seat + 1].hand) > 0
           /\ ~Ended'
           /\ winner' = Null
           /\ turnIndex' = (turnIndex + direction' + Len(players)) % Len(players))]_vars

\* C5: an accepted play by a seat that has declared LAST, that empties its hand
\* and ends on a card that is no power card, ends the match with that seat as
\* winner and leaves the turn pointer where it was.
C5_CleanFinish ==
  [][\A seat \in Seats, sel \in IndexLists :
       (res'.ok /\ players[seat + 1].lastDeclared
          /\ (A_Play(seat, sel) \/ E_Play(seat, sel)) /\ PlaysOut(seat, sel)
          /\ LastPlayed(seat, sel).rank \notin POWER_RANKS)
       => (Ended' /\ winner' = seat /\ turnIndex' = turnIndex)]_vars

\* C5's case: a seat has just won with a clean finish
C5_Witness ==
  /\ variant \in {"A", "E"} /\ res.ev = "wins!" /\ Ended
  /\ winner = turnIndex /\ players[winner + 1].hand = <<>>
  /\ Last(discard).rank \notin POWER_RANKS

\* C6: once a match has ended with a winner, every later play, draw,
\* declare-LAST or choose-suit intent is rejected and leaves hands, deck,
\* discard pile, turn pointer, pending counters and winner as they were.
C6_NoActionAfterEnd ==
  [][(/\ status = "ended" /\ winner # Null
      /\ \E seat \in Seats :
           \/ A_DeclareLast(seat) \/ B_Last(seat)
           \/ A_Draw(seat) \/ B_Pickup(seat)
           \/ \E sel \in IndexLists : A_Play(seat, sel) \/ B_Play(seat, sel)
           \/ \E ch \in SuitChars : B_Suit(seat, ch))
     => (/\ ~res'.ok
         /\ Hands' = Hands
         /\ UNCHANGED <<deck, discard, turnIndex, pendingDraw2, pendingDrawJ,
                        pendingSkip, winner>>)]_vars

\* C7 as stated: an ended match has a winner, also when a disconnection
\* ended it.
C7_EndedHasWinner == status = "ended" => winner # Null

\* C7 amended: an ended match has a winner unless a client has left the room;
\* a match ended by a disconnection has no winner.
C7_EndedHasWinnerUnlessLeft ==
  status = "ended" => (winner # Null \/ clients # Seats)

\* C7's case: a match ended by a win, everybody still connected
C7_Witness ==
  variant = "A" /\ status = "ended" /\ winner # Null /\ clients = Seats

C10_TurnInRange ==
  status \in {"playing", "ended"} => turnIndex \in 0..(Len(players) - 1)

\* C9: a play that is not accepted leaves the whole table as it was.
C9_AtomicRejection ==
  [][\A seat \in Seats, sel \in IndexLists :
       (~res'.ok /\ (A_Play(seat, sel) \/ B_Play(seat, sel))) => UNCHANGED table]_vars

\* C11: while the awaiting-suit flag is set, no pickup and no play of any
\* player moves turnIndex.
C11_TurnHeldWhileAwaiting ==
  [][(/\ awaitingSuit
      /\ \E c \in Seats :
           \/ B_Pickup(c) \/ F_Pickup(c)
           \/ \E sel \in IndexLists :
                \/ B_Play(c, sel)
                \/ \E ch \in F_SuitInputs : F_Play(c, sel, ch))
     => turnIndex' = turnIndex]_vars

\* C12: at most one of pendingDraw2 and pendingDrawJ is non-zero, also after a
\* run that starts on the gated rank and ends on another power card.
C12_OnePending == pendingDraw2 = 0 \/ pendingDrawJ = 0

(***************************************************************************)
(* The snapshots the servers send: for each player of the state, the hand  *)
(* the viewer is shown and the count sent with it (Null: no count field).  *)
(***************************************************************************)
\* server.js publicStateFor, and the second server's broadcastState
publicStateFor(viewer) ==
  [k \in DOMAIN players |->
     IF k - 1 # viewer THEN [hand |-> <<>>, handCount |-> Len(players[k].hand)]
     ELSE [hand |-> players[k].hand, handCount |-> Null]]

\* part_000 broadcastState, first server: one payload for every client
D_broadcastState ==
  [k \in DOMAIN players |-> [hand |-> players[k].hand, handCount |-> Null]]

\* part_000 broadcastState, second server: other hands are masked card by card
F_broadcastState(viewer) ==
  [k \in DOMAIN players |->
     [hand |-> IF k - 1 = viewer THEN players[k].hand
               ELSE [j \in DOMAIN players[k].hand |-> Card("?", "?")],
      handCount |-> Len(players[k].hand)]]

Snapshot(viewer) ==
  CASE variant = "D" -> D_broadcastState
    [] variant = "F" -> F_broadcastState(viewer)
    [] OTHER -> publicStateFor(viewer)

\* C13: the snapshot for a viewer shows the viewer's own hand in full and no
\* card of any other player's hand.
C13_HandsHidden ==
  \A viewer \in Seats :
    /\ Snapshot(viewer)[viewer + 1].hand = players[viewer + 1].hand
    /\ \A k \in Seats \ {viewer} :
         \A j \in DOMAIN Snapshot(viewer)[k + 1].hand :
           Snapshot(viewer)[k + 1].hand[j] \notin Cards

\* the state a game start has just built
Created == moves = 0 /\ res = Reply(TRUE, "", "start")

\* C14: after a match is created every player holds the dealt number of cards
\* (7 in the code, HandSize here), the discard pile is one card that is no
\* power card, activeSuit is its suit, turnIndex is 0, direction is +1 and the
\* pending counters are 0.
C14_CreationPost ==
  Created =>
    /\ \A k \in DOMAIN players : Len(players[k].hand) = HandSize
    /\ Len(discard) = 1
    /\ discard[1].rank \notin POWER_RANKS
    /\ activeSuit = discard[1].suit
    /\ turnIndex = 0 /\ direction = 1
    /\ pendingDraw2 = 0 /\ pendingDrawJ = 0 /\ pendingSkip = 0

\* C15: a started match has between 2 and 4 seated players.
C15_SeatCount == status = "playing" => Len(players) \in 2..MaxPlayers

\* C16: a disconnection during a match that leaves somebody in the room ends
\* the match without a winner, and once a seated player has gone no play and
\* no draw of the remaining players is accepted.
C16_Abandonment ==
  [][\A seat \in Seats :
       /\ (status = "playing" /\ (A_Close(seat) \/ B_Close(seat)) /\ clients' # {})
            => (status' = "ended" /\ winner' = Null)
       /\ (/\ clients # Seats
           /\ \/ A_Draw(seat) \/ B_Pickup(seat)
              \/ \E sel \in IndexLists : A_Play(seat, sel) \/ B_Play(seat, sel))
            => ~res'.ok]_vars

C18_PenaltyDraw ==
  [][\A seat \in Seats :
       (/\ status = "playing" /\ seat = turnIndex
        /\ pendingDraw2 > 0 \/ pendingDrawJ > 0
        /\ A_Draw(seat) \/ D_Draw(seat))
       => LET n == Len(players) IN
          /\ Len(players'[seat + 1].hand) = Len(players[seat + 1].hand)
               + (IF pendingDraw2 > 0 THEN pendingDraw2 ELSE pendingDrawJ)
          /\ IF pendingDraw2 > 0 THEN pendingDraw2' = 0 ELSE pendingDrawJ' = 0
          /\ turnIndex' = (turnIndex + direction + n) % n]_vars

\* C19: while pendingDrawJ > 0, a red Jack (hearts or diamonds) played by the
\* seat at turn is accepted and sets pendingDrawJ to 0; an accepted black Jack
\* (spades or clubs) adds exactly 5 to pendingDrawJ.
C19_JackStack ==
  [][\A seat \in Seats : \A k \in 0..(Len(players[seat + 1].hand) - 1) :
       LET c == At(players[seat + 1].hand, k) IN
       (/\ status = "playing" /\ seat = turnIndex
        /\ c.rank = "J"
        /\ A_Play(seat, <<k>>))
       => IF c.suit \in {"H", "D"}
          THEN pendingDrawJ > 0 => (res'.ok /\ pendingDrawJ' = 0)
          ELSE res'.ok => pendingDrawJ' = pendingDrawJ + 5]_vars

\* C20: an accepted play of a single Queen that leaves the player with cards
\* negates direction and passes the turn to seat (turnIndex - old direction)
\* mod n, the player who sat before the acting player in the old direction.
C20_QueenReverses ==
  [][\A seat \in Seats : \A k \in 0..(Len(players[seat + 1].hand) - 1) :
       (/\ At(players[seat + 1].hand, k).rank = "Q"
        /\ Len(players[seat + 1].hand) > 1
        /\ res'.ok
        /\ A_Play(seat, <<k>>) \/ E_Play(seat, <<k>>))
       => /\ direction' = -direction
          /\ turnIndex' = (turnIndex - direction + Len(players)) % Len(players)]_vars

\* C21: a play that names a hand position the seat's hand does not have is
\* rejected as a whole and changes nothing; the other cards named are not
\* played.
C21_BadReferenceRejected ==
  [][\A seat \in Seats, sel \in IndexLists :
       (/\ \E k \in DOMAIN sel : sel[k] < 0 \/ sel[k] >= Len(players[seat + 1].hand)
        /\ status = "playing" /\ seat = turnIndex
        /\ A_Play(seat, sel) \/ \E ch \in F_SuitInputs : F_Play(seat, sel, ch))
       => (~res'.ok /\ UNCHANGED table)]_vars

\* C22: while pendingDraw2 > 0 (pendingDrawJ > 0, pendingSkip > 0) a play is
\* accepted only if the first card played is a 2 (a Jack, an 8); a play that
\* fails this gate is rejected with the gate's own error, before the start and
\* link tests, and changes nothing.
C22_PendingGate ==
  [][\A seat \in Seats, sel \in IndexLists :
       LET hand == players[seat + 1].hand
           S == {sel[k] : k \in DOMAIN sel}
           first == CASE variant = "A" -> At(hand, CHOOSE x \in S : \A y \in S : y <= x)
                      [] variant = "B" -> At(hand, CHOOSE x \in S : \A y \in S : x <= y)
                      [] OTHER -> At(hand, sel[1])
           gated == \/ pendingDraw2 > 0 /\ first.rank # "2"
                    \/ pendingDrawJ > 0 /\ first.rank # "J"
                    \/ pendingSkip > 0 /\ first.rank # "8"
       IN (/\ sel # <<>> /\ \A k \in DOMAIN sel : sel[k] >= 0 /\ sel[k] < Len(hand)
           /\ seat = turnIndex /\ status = "playing" /\ ~awaitingSuit
           /\ gated
           /\ A_Play(seat, sel) \/ B_Play(seat, sel) \/ \E ch \in F_SuitInputs : F_Play(seat, sel, ch))
          => /\ ~res'.ok
             /\ res'.err \in {"Must play a 2!", "Must play a Jack (or DRAW)!",
                              "Can only stack an 8!", "Must play a Jack!",
                              "Play an 8 or Draw!", "Must play a 2", "Must play a Jack"}
             /\ UNCHANGED table]_vars

\* C23: with no penalty pending, a play of the seat at turn is accepted if and
\* only if its first card is an Ace, has the active suit or has the top card's
\* rank, and every two consecutive cards in play order have the same rank, or
\* the same suit and ranks that differ by exactly 1 (A=1, J=11, Q=12, K=13).
C23_PlayLegality ==
  [][\A seat \in Seats, sel \in IndexLists :
       LET hand == players[seat + 1].hand
           S == {sel[k] : k \in DOMAIN sel}
           order == IF variant = "A" THEN SetToSeqDesc(S) ELSE sel
           cards == [k \in DOMAIN order |-> At(hand, order[k])]
           legal == /\ \/ cards[1].rank = "A"
                       \/ cards[1].suit = activeSuit
                       \/ cards[1].rank = topCard(discard).rank
                    /\ \A k \in 1..(Len(cards) - 1) :
                         \/ cards[k].rank = cards[k + 1].rank
                         \/ /\ cards[k].suit = cards[k + 1].suit
                            /\ Abs(rankVal(cards[k].rank) - rankVal(cards[k + 1].rank)) = 1
       IN (/\ sel # <<>> /\ \A k \in DOMAIN sel : sel[k] >= 0 /\ sel[k] < Len(hand)
           /\ Cardinality(S) = Len(sel)
           /\ seat = turnIndex /\ status = "playing" /\ ~awaitingSuit
           /\ pendingDraw2 = 0 /\ pendingDrawJ = 0 /\ pendingSkip = 0
           /\ A_Play(seat, sel) \/ \E ch \in F_SuitInputs : F_Play(seat, sel, ch))
          => (res'.ok <=> legal)]_vars

\* C24: an accepted play puts the selected cards on the discard pile in the
\* order in which the player named them: the new top card is the last card of
\* the player's sequence, wherever those cards were in the hand.
C24_OrderGiven ==
  [][\A seat \in Seats :
       /\ \A sel \in IndexLists :
            LET hand == players[seat + 1].hand IN
            (/\ sel # <<>> /\ \A k \in DOMAIN sel : sel[k] >= 0 /\ sel[k] < Len(hand)
             /\ Cardinality({sel[k] : k \in DOMAIN sel}) = Len(sel)
             /\ res'.ok
             /\ A_Play(seat, sel) \/ B_Play(seat, sel))
            => topCard(discard') = At(hand, sel[Len(sel)])
       /\ \A ids \in IdLists :
            (/\ ids # <<>> /\ res'.ok /\ D_Play(seat, ids))
            => topCard(discard') = ids[Len(ids)]]_vars

\* C25: after an accepted play whose last card is no Ace, activeSuit is the suit
\* of that card and the card is the top of the discard pile, also when the play
\* draws a finish penalty.
C25_SuitFollowsLast ==
  [][\A seat \in Seats, sel \in IndexLists :
       (/\ res'.ok
        /\ A_Play(seat, sel) \/ E_Play(seat, sel)
        /\ LastPlayed(seat, sel).rank # "A")
       => /\ activeSuit' = LastPlayed(seat, sel).suit
          /\ topCard(discard') = LastPlayed(seat, sel)]_vars

\* C26: an accepted play applies the power of each qualifying card once: every
\* card of a play of one rank, and only the last card of a play of mixed ranks
\* (a 2 adds 2 to pendingDraw2, an 8 adds 1 to pendingSkip, a Queen negates
\* direction); power cards before the last card of a mixed play do nothing.
C26_PowerPerCard ==
  [][\A seat \in Seats, sel \in IndexLists :
       LET hand == players[seat + 1].hand
           S == {sel[k] : k \in DOMAIN sel}
           order == CASE variant = "A" -> SetToSeqDesc(S)
                      [] variant = "B" -> Reverse(SortDesc(sel))
                      [] OTHER -> sel
           cards == [k \in DOMAIN order |-> At(hand, order[k])]
           oneRank == \A k \in DOMAIN cards : cards[k].rank = cards[1].rank
           count(r) == IF oneRank
                       THEN Cardinality({k \in DOMAIN cards : cards[k].rank = r})
                       ELSE IF cards[Len(cards)].rank = r THEN 1 ELSE 0
       IN (/\ sel # <<>> /\ \A k \in DOMAIN sel : sel[k] >= 0 /\ sel[k] < Len(hand)
           /\ Cardinality(S) = Len(sel)
           /\ res'.ok
           /\ A_Play(seat, sel) \/ B_Play(seat, sel) \/ E_Play(seat, sel))
          => /\ pendingDraw2' = pendingDraw2 + 2 * count("2")
             /\ pendingSkip' = pendingSkip + count("8")
             /\ direction' = IF count("Q") % 2 = 1 THEN -direction ELSE direction]_vars

\* C27: after an accepted play that ends on an Ace, names no suit and leaves
\* cards in the hand, the table waits for the acting player's suit choice:
\* the awaiting flag is set, activeSuit is unchanged and turnIndex has not moved.
C27_AceAwaitsSuit ==
  [][\A seat \in Seats, sel \in IndexLists :
       LET hand == players[seat + 1].hand
           S == {sel[k] : k \in DOMAIN sel}
       IN (/\ sel # <<>> /\ \A k \in DOMAIN sel : sel[k] >= 0 /\ sel[k] < Len(hand)
           /\ Cardinality(S) = Len(sel) /\ Len(sel) < Len(hand)
           /\ LastPlayed(seat, sel).rank = "A"
           /\ res'.ok
           /\ A_Play(seat, sel) \/ B_Play(seat, sel) \/ F_Play(seat, sel, "?"))
          => /\ awaitingSuit'
             /\ activeSuit' = activeSuit
             /\ turnIndex' = turnIndex]_vars

\* C28: a suit choice takes effect only while a choice is pending and only
\* from the player at turn, whose Ace it was: it then sets activeSuit to one
\* of the four suits, clears the awaiting flag and moves the turn once; in any
\* other situation a suit-choice intent changes nothing.
C28_SuitChoice ==
  [][\A seat \in Seats, ch \in SuitChars \cup F_SuitInputs :
       (B_Suit(seat, ch) \/ F_Suit(seat, ch))
       => IF awaitingSuit /\ seat = turnIndex
          THEN /\ activeSuit' \in {"S", "H", "D", "C"}
               /\ ~awaitingSuit'
               /\ turnIndex' = (turnIndex + direction + Len(players)) % Len(players)
          ELSE UNCHANGED table]_vars

\* C29: when the seat at turn draws while pendingSkip > 0, no card is drawn,
\* pendingSkip goes down by exactly 1 (it is not set to 0) and the turn moves
\* on.
C29_SkipConsumed ==
  [][\A seat \in Seats :
       (/\ status = "playing" /\ seat = turnIndex /\ pendingSkip > 0
        /\ A_Draw(seat) \/ B_Pickup(seat) \/ D_Draw(seat))
       => /\ Hands' = Hands
          /\ pendingSkip' = pendingSkip - 1
          /\ turnIndex' = (turnIndex + direction + Len(players)) % Len(players)]_vars

\* C30: after every accepted draw (a plain draw, a penalty draw or a pass on a
\* pending skip) the LAST flag of the player who drew is false, also when that
\* player had declared LAST before.
C30_DrawClearsLast ==
  [][\A seat \in Seats :
       (res'.ok /\ (A_Draw(seat) \/ E_Draw(seat)))
       => ~players'[seat + 1].lastDeclared]_vars

\* C31: whenever the turn passes to a player while the match is being played,
\* that player's LAST flag is false (a declaration of an earlier turn is not
\* in force any more), and a player's LAST flag goes from false to true only
\* in a step that is that player's own declare-LAST intent.
C31_LastFreshEachTurn ==
  [][(status' = "playing" /\ Len(players') = Len(players))
       => /\ turnIndex' # turnIndex => ~players'[turnIndex' + 1].lastDeclared
          /\ \A seat \in Seats :
               (players'[seat + 1].lastDeclared /\ ~players[seat + 1].lastDeclared)
               => (A_DeclareLast(seat) \/ B_Last(seat))]_vars

\* C32: a declare-LAST from the seat at turn in a match being played is
\* accepted, sets that player's LAST flag and changes nothing else of the
\* table; a declare-LAST from any other seat changes nothing of the table.
C32_DeclareLastFrame ==
  [][\A seat \in Seats :
       (A_DeclareLast(seat) \/ B_Last(seat) \/ F_Last(seat))
       => IF status = "playing" /\ seat = turnIndex
          THEN /\ res'.ok
               /\ players' = [players EXCEPT ![seat + 1].lastDeclared = TRUE]
               /\ UNCHANGED <<deck, discard, turnIndex, direction, activeSuit,
                              pendingDraw2, pendingDrawJ, pendingSkip, extraTurn,
                              awaitingSuit, status, winner>>
          ELSE UNCHANGED table]_vars

\* C33: after an accepted play that would have emptied the hand but is
\* refused as a finish because its last card is a power card (the player had
\* declared LAST where the server asks for it), the turn has passed to the next
\* player and the extra-turn flag is false, also when the last card is a King.
C33_PowerFinishCancelsExtraTurn ==
  [][\A seat \in Seats :
       (/\ res'.ok /\ status = "playing"
        /\ \/ \E sel \in IndexLists :
                /\ A_Play(seat, sel) \/ B_Play(seat, sel)
                /\ PlaysOut(seat, sel)
                /\ LastPlayed(seat, sel).rank \in POWER_RANKS
                /\ variant = "A" => players[seat + 1].lastDeclared
           \/ \E ids \in IdLists :
                /\ D_Play(seat, ids)
                /\ \A k \in DOMAIN players[seat + 1].hand :
                     \E j \in DOMAIN ids : ids[j] = players[seat + 1].hand[k]
                /\ ids[Len(ids)].rank \in POWER_RANKS)
       => /\ ~extraTurn'
          /\ turnIndex' = (turnIndex + direction' + Len(players)) % Len(players)]_vars

\* C34: an accepted play that leaves the player with cards and whose last
\* card is a King leaves the same seat at turn in a match still being played,
\* with the extra-turn flag already false again: a set of several Kings grants
\* the one replay a single King grants.
C34_KingReplaysOnce ==
  [][\A seat \in Seats :
       (/\ res'.ok /\ status = "playing"
        /\ \/ \E sel \in IndexLists :
                /\ A_Play(seat, sel)
                /\ ~PlaysOut(seat, sel)
                /\ LastPlayed(seat, sel).rank = "K"
           \/ \E ids \in IdLists :
                /\ D_Play(seat, ids)
                /\ \E k \in DOMAIN players[seat + 1].hand :
                     \A j \in DOMAIN ids : ids[j] # players[seat + 1].hand[k]
                /\ ids[Len(ids)].rank = "K")
       => /\ turnIndex' = turnIndex
          /\ ~extraTurn'
          /\ status' = "playing"]_vars

\* the pair of Kings has been played as one set and seat 0 is at turn again
C34_Witness ==
  /\ Len(discard) = 3
  /\ discard[2].rank = "K" /\ discard[3].rank = "K"
  /\ players[1].hand = <<Card("5", "H")>>
  /\ turnIndex = 0 /\ ~extraTurn /\ status = "playing"

\* C35: the turn never comes to rest on a player who faces pendingSkip > 0
\* and holds no 8: when a step moves the turn in a match being played, either
\* no skip is pending afterwards or the player now at turn holds an 8 to
\* answer it (the skip has been consumed on the way otherwise).
C35_SkipAutoConsumed ==
  [][(/\ status' = "playing" /\ Len(players') = Len(players)
      /\ turnIndex' # turnIndex)
       => \/ pendingSkip' = 0
          \/ \E k \in DOMAIN players'[turnIndex' + 1].hand :
               players'[turnIndex' + 1].hand[k].rank = "8"]_vars

\* C36: a START_GAME from the host of a room of two to four players, with at
\* least one card left to flip after the deal, always comes back with a match
\* being played on a starter that is no power card: the starter loop ends for
\* every shuffle.
C36_CreationTerminates ==
  [][\A c \in clients :
       (/\ B_Start(c) /\ c = Min(clients)
        /\ Cardinality(clients) \in 2..MaxPlayers
        /\ Cardinality(clients) * HandSize + 1 <= Cardinality(DeckCards))
       => /\ status' = "playing"
          /\ topCard(discard').rank \notin POWER_RANKS]_vars

\* C37: a turn draw of n cards, or a finish penalty of 2, puts exactly n
\* cards into the drawing hand whenever the deck and the discard pile under
\* its top card together hold at least n cards; otherwise it puts in at
\* least the cards they hold and never more than n.
C37_DrawSupplies ==
  [][\A seat \in Seats :
       LET hand == players[seat + 1].hand
           n == IF pendingDraw2 > 0 THEN pendingDraw2
                ELSE IF pendingDrawJ > 0 THEN pendingDrawJ ELSE 1
           supply == BagSize(deck) + Len(discard) - 1
           Min2(a, b) == IF a < b THEN a ELSE b
       IN /\ (/\ seat = turnIndex /\ res'.ok /\ res'.ev = "draw"
              /\ B_Pickup(seat) \/ F_Pickup(seat))
             => /\ Len(players'[seat + 1].hand) >= Len(hand) + Min2(n, supply)
                /\ Len(players'[seat + 1].hand) <= Len(hand) + n
          /\ (/\ seat = turnIndex /\ res'.ok
              /\ res'.ev \in {"Can't finish on power card! Drew 2.",
                              "Can't finish on a Power Card! Drew 2."}
              /\ \E sel \in IndexLists :
                   B_Play(seat, sel) \/ \E ch \in F_SuitInputs : F_Play(seat, sel, ch))
             => /\ Len(players'[seat + 1].hand) >= Min2(2, supply + Len(hand))
                /\ Len(players'[seat + 1].hand) <= 2]_vars

\* C38: after an accepted play that draws no card, the cards the discard pile
\* has gained are exactly the cards the acting hand has lost, card for card,
\* also when the play names a card twice; and a 2 named twice adds its draw-2
\* once, so that pendingDraw2 grows by 2 for each card that left the hand at
\* most.
C38_RepeatedCardOnce ==
  [][\A seat \in Seats :
       (/\ res'.ok /\ deck' = deck /\ Len(players') = Len(players)
        /\ \/ \E sel \in IndexLists : A_Play(seat, sel) \/ B_Play(seat, sel)
           \/ \E ids \in IdLists : D_Play(seat, ids))
       => /\ \A c \in Cards :
               BagOfSeq(discard')[c] - BagOfSeq(discard)[c]
                 = BagOfSeq(players[seat + 1].hand)[c] - BagOfSeq(players'[seat + 1].hand)[c]
          /\ pendingDraw2' - pendingDraw2
               <= 2 * (Len(players[seat + 1].hand) - Len(players'[seat + 1].hand))]_vars

\* C39: whenever a match is being played, a client is connected and the
\* player at turnIndex is a bot, a botTurn is scheduled and has not run yet:
\* the game is never left waiting for a bot that nothing will wake.
C39_BotMovePending ==
  (status = "playing" /\ clients # {} /\ ~F_noCurrent /\ isBot(turnIndex)) => timers > 0

\* ---------------------------------------------------------------------
\* The relay servers: Server.js (create_room, join_room, leave_room, close,
\* all through leaveRoom) and the first server of unnamed/part_001 (join,
\* close, pickHost, pruneEmptyRooms).  A room is [live, hostId, clients];
\* clients is the Map ws -> info in insertion order, as a sequence of
\* [ws, id, seat].  A socket is [st, room, id]: st is "none" before the
\* connection, "open", or "closed"; room is ws._room / ws._roomCode.
\* ---------------------------------------------------------------------
InitRelay ==
  /\ variant \in {"S", "P"} /\ moves = 0
  /\ players = <<>> /\ deck = [c \in Cards |-> 0] /\ discard = <<>>
  /\ activeSuit = "" /\ turnIndex = 0 /\ direction = 1
  /\ pendingDraw2 = 0 /\ pendingDrawJ = 0 /\ pendingSkip = 0
  /\ extraTurn = FALSE /\ awaitingSuit = FALSE
  /\ status = "relay" /\ winner = Null
  /\ clients = {}
  /\ res = Reply(TRUE, "", "listening")
  /\ timers = 0 /\ rooms = NoRooms /\ sockets = NoSockets

\* one message or close handled by a relay server
Handled(ev) == moves < MaxEvents /\ moves' = moves + 1 /\ res' = Reply(TRUE, "", ev)

\* the connections in a room's clients Map
members(room) == { room.clients[k].ws : k \in DOMAIN room.clients }

\* room.clients.delete(ws)
without(cl, w) == SelectSeq(cl, LAMBDA m : m.ws # w)

\* room.clients.set(ws, info): a key already in the Map keeps its place
withClient(cl, m) ==
  IF \E k \in DOMAIN cl : cl[k].ws = m.ws
  THEN [k \in DOMAIN cl |-> IF cl[k].ws = m.ws THEN m ELSE cl[k]]
  ELSE Append(cl, m)

\* wss.on("connection"): Server.js numbers the sockets with wsCounter
connection(w) ==
  /\ variant \in {"S", "P"} /\ sockets[w].st = "none"
  /\ sockets' = [sockets EXCEPT ![w] =
       [st |-> "open", room |-> "",
        id |-> IF variant = "S"
               THEN 1 + Cardinality({x \in Conns : sockets[x].st # "none"})
               ELSE Null]]
  /\ res' = Reply(TRUE, "", "connection")
  /\ UNCHANGED <<variant, table, clients, moves, timers, rooms>>

\* Server.js leaveRoom(ws): the registry and the sockets it leaves behind
leaveRoom(rs, ss, w) ==
  LET code == ss[w].room
      ss1 == [ss EXCEPT ![w].room = ""]
  IN IF code = "" THEN [rooms |-> rs, sockets |-> ss]
     ELSE IF ~rs[code].live THEN [rooms |-> rs, sockets |-> ss1]
     ELSE
       LET room == rs[code]
           here == { k \in DOMAIN room.clients : room.clients[k].ws = w }
           left == without(room.clients, w)
           wasHost == \E k \in here : room.clients[k].id = room.hostId
           lowest == CHOOSE k \in DOMAIN left :
                       \A j \in DOMAIN left : left[k].seat <= left[j].seat
           host1 == IF wasHost /\ Len(left) > 0 THEN left[lowest].id ELSE room.hostId
       IN IF Len(left) = 0
          THEN [rooms |-> [rs EXCEPT ![code] = NoRooms[code]], sockets |-> ss1]
          ELSE [rooms |-> [rs EXCEPT ![code] = [live |-> TRUE, hostId |-> host1, clients |-> left]],
                sockets |-> ss1]

\* Server.js create_room: leave the room the socket is in, then open a room
\* under the requested code if it is free, under a fresh code otherwise
S_create_room(w, requested) ==
  /\ variant = "S" /\ sockets[w].st = "open"
  /\ LET l == leaveRoom(rooms, sockets, w)
     IN \E code \in Codes :
          /\ ~l.rooms[code].live
          /\ l.rooms[requested].live \/ code = requested
          /\ rooms' = [l.rooms EXCEPT ![code] =
               [live |-> TRUE, hostId |-> sockets[w].id,
                clients |-> <<[ws |-> w, id |-> sockets[w].id, seat |-> 0]>>]]
          /\ sockets' = [l.sockets EXCEPT ![w].room = code]
  /\ Handled("room_created")
  /\ UNCHANGED <<variant, table, clients, timers>>

\* Server.js join_room: leave first, then take the smallest free seat
S_join_room(w, code) ==
  /\ variant = "S" /\ sockets[w].st = "open"
  /\ LET l == leaveRoom(rooms, sockets, w)
         room == l.rooms[code]
         used == { room.clients[k].seat : k \in DOMAIN room.clients }
         seat == CHOOSE s \in 0..MaxPlayers : s \notin used /\ \A t \in 0..(s - 1) : t \in used
     IN IF ~room.live
        THEN /\ rooms' = l.rooms /\ sockets' = l.sockets
             /\ moves < MaxEvents /\ moves' = moves + 1
             /\ res' = Reply(FALSE, "Room not found.", "joined")
        ELSE IF seat > 3
        THEN /\ rooms' = l.rooms /\ sockets' = l.sockets
             /\ moves < MaxEvents /\ moves' = moves + 1
             /\ res' = Reply(FALSE, "Room full (max 4).", "joined")
        ELSE /\ rooms' = [l.rooms EXCEPT ![code].clients =
                  withClient(room.clients, [ws |-> w, id |-> sockets[w].id, seat |-> seat])]
             /\ sockets' = [l.sockets EXCEPT ![w].room = code]
             /\ Handled("joined")
  /\ UNCHANGED <<variant, table, clients, timers>>

\* Server.js leave_room
S_leave_room(w) ==
  /\ variant = "S" /\ sockets[w].st = "open"
  /\ LET l == leaveRoom(rooms, sockets, w)
     IN rooms' = l.rooms /\ sockets' = l.sockets
  /\ Handled("leave_room")
  /\ UNCHANGED <<variant, table, clients, timers>>

\* Server.js ws.on("close")
S_close(w) ==
  /\ variant = "S" /\ sockets[w].st = "open"
  /\ LET l == leaveRoom(rooms, sockets, w)
     IN rooms' = l.rooms /\ sockets' = [l.sockets EXCEPT ![w].st = "closed"]
  /\ Handled("close")
  /\ UNCHANGED <<variant, table, clients, timers>>

NextS ==
  \/ \E w \in Conns, code \in Codes : S_create_room(w, code)
  \/ \E w \in Conns, code \in Codes : S_join_room(w, code)
  \/ \E w \in Conns : S_leave_room(w)
  \/ \E w \in Conns : S_close(w)

\* part_001 pickHost: keep the host while one of the clients carries its id,
\* else the oldest client, else null
pickHost(room) ==
  IF room.hostId # Null /\ \E k \in DOMAIN room.clients : room.clients[k].id = room.hostId
  THEN room
  ELSE [room EXCEPT !.hostId = IF Len(room.clients) > 0 THEN room.clients[1].id ELSE Null]

\* part_001 pruneEmptyRooms
pruneEmptyRooms(rs) ==
  [code \in Codes |-> IF Len(rs[code].clients) = 0 THEN NoRooms[code] ELSE rs[code]]

\* part_001 join: getOrCreateRoom, a fresh random id, clients.set, pickHost.
\* The room the socket was in before is not touched.
P_join(w, code) ==
  /\ variant = "P" /\ sockets[w].st = "open"
  /\ LET id == moves + 1
         room == [rooms[code] EXCEPT !.live = TRUE]
         room1 == [room EXCEPT !.clients =
                     withClient(room.clients, [ws |-> w, id |-> id, seat |-> Null])]
     IN /\ rooms' = [rooms EXCEPT ![code] = pickHost(room1)]
        /\ sockets' = [sockets EXCEPT ![w].room = code, ![w].id = id]
  /\ Handled("joined")
  /\ UNCHANGED <<variant, table, clients, timers>>

\* part_001 ws.on('close'): only the room of ws._roomCode is cleaned
P_close(w) ==
  /\ variant = "P" /\ sockets[w].st = "open"
  /\ LET code == sockets[w].room
     IN IF code = "" \/ ~rooms[code].live
        THEN rooms' = rooms
        ELSE rooms' = pruneEmptyRooms([rooms EXCEPT ![code] =
                        pickHost([rooms[code] EXCEPT !.clients = without(@, w)])])
  /\ sockets' = [sockets EXCEPT ![w].st = "closed"]
  /\ Handled("close")
  /\ UNCHANGED <<variant, table, clients, timers>>

NextP ==
  \/ \E w \in Conns, code \in Codes : P_join(w, code)
  \/ \E w \in Conns : P_close(w)

NextRelay == (\E w \in Conns : connection(w)) \/ NextS \/ NextP

SpecS == InitRelay /\ variant = "S" /\ [][NextRelay]_vars
SpecRelay == InitRelay /\ [][NextRelay]_vars

\* C40: in every room of the registry some client is connected and the
\* hostId is the id of one of the room's clients; no room of the registry is
\* without clients; and no connection is a client of two rooms at once.
C40_RelayHostInvariant ==
  /\ \A code \in Codes :
       rooms[code].live =>
         /\ Len(rooms[code].clients) > 0
         /\ \E k \in DOMAIN rooms[code].clients :
              sockets[rooms[code].clients[k].ws].st = "open"
         /\ \E k \in DOMAIN rooms[code].clients :
              rooms[code].clients[k].id = rooms[code].hostId
  /\ \A w \in Conns :
       Cardinality({ code \in Codes : rooms[code].live /\ w \in members(rooms[code]) }) <= 1
====
